---- MODULE Spec2Model ----
(***************************************************************************)
(* Snapshot capture-and-compare engine of snapdrive-ios.                   *)
(*                                                                         *)
(*   ImageDiffer    (image-differ.ts) : compare, updateBaseline, toBase64, *)
(*                                      stitchVertically, findOverlap      *)
(*   ScenarioRunner (scenario-runner.ts) : runTestCase, executeStep        *)
(*   CLI and server (cli, server.ts)     : run, run_test_case,             *)
(*                                         run_all_tests                   *)
(*   ElementFinder  (element-finder.ts)  : findScrollRegion                *)
(*                                                                         *)
(* The specifications share the variables:                                 *)
(*   Spec        one run of runTestCase over a scenario                    *)
(*   SpecCapture one run of runTestCase over a single full_page_checkpoint *)
(*               step, for every maxScrolls from 0 up                      *)
(*   SpecCompare ImageDiffer.compare and the compare-mode 'checkpoint'     *)
(*               case applied to files drawn from bounded sets             *)
(*   SpecStitch  ImageDiffer.stitchVertically applied to up to three files *)
(*   SpecOverlap ImageDiffer.findOverlap applied to two files              *)
(*   FairSpec    Spec with weak fairness of Next                           *)
(*   SpecSmart   one run of runTestCase over a single smart_checkpoint     *)
(*               step, with the gestures and captures recorded             *)
(*   SpecElement one run of runTestCase over a single wait_for_element or  *)
(*               scroll_to_element step                                    *)
(*   SpecEntry   the CLI run command and the run_test_case / run_all_tests *)
(*               tools around runTestCase                                  *)
(*   SpecTop     one run of runTestCase over a single scroll_to_top step   *)
(*   SpecMatch   ImageDiffer.findOverlap applied to two wide files whose   *)
(*               strips have fifty pixels                                  *)
(*   SpecDiff    ImageDiffer.compare writing a diff image                  *)
(*   SpecSwipe   the scroll gesture of the scrolling cases                 *)
(*   SpecRegion  ElementFinder.findScrollRegion applied to a UI tree       *)
(***************************************************************************)
EXTENDS Integers, Sequences, FiniteSets, TLC

VARIABLES
    \* ---- ImageDiffer.compare call (SpecCompare) ----
    actualFile,      \* content of the file at actualPath
    baselineFile,    \* content of the file at baselinePath
    options,         \* CompareOptions {tolerance, generateDiff, diffOutputPath}
    diffResult,      \* DiffResult returned by compare, or Nothing / Thrown
    cpResult,        \* CheckpointResult of the 'checkpoint' case, or Nothing / Thrown
    diffFile,        \* content of the file at diffOutputPath
    \* ---- ImageDiffer.stitchVertically call (SpecStitch) ----
    imagePaths,      \* contents of the files at imagePaths, in order
    outputFile,      \* content of the file at outputPath, or Nothing / Thrown
    \* ---- ImageDiffer.findOverlap call (SpecOverlap) ----
    prevImage,       \* content of the file at prevImagePath
    currentImage,    \* content of the file at currentImagePath
    overlapArgs,     \* {scrollDistancePixels, stripHeight, searchRange}
    overlapResult,   \* OverlapResult returned by findOverlap, or Nothing / Thrown
    \* ---- ScenarioRunner.runTestCase (Spec) ----
    scenario,        \* testCase.scenario.steps
    updateBaselines, \* options.updateBaselines
    i,               \* loop index of runTestCase
    steps,           \* StepResult[]
    checkpoints,     \* CheckpointResult[]
    success,         \* let success
    pc,              \* position inside runTestCase / executeStep
    frame,           \* locals of the executeStep case in progress
    baselines,       \* files under testCase.baselinesDir : path -> content
    screenshots,     \* files under screenshotsDir : path -> content
    device,          \* the simulator as the element cases see it (SpecElement)
    entry,           \* the CLI run command or the server tool in progress (SpecEntry)
    trace            \* what happened to the world during the run (ghost)

vars == <<actualFile, baselineFile, options, diffResult, cpResult, diffFile,
          imagePaths, outputFile, prevImage, currentImage, overlapArgs,
          overlapResult, scenario, updateBaselines, i, steps, checkpoints, success, pc,
          frame, baselines, screenshots, device, entry, trace>>

compareVars == <<actualFile, baselineFile, options, diffResult, cpResult,
                 diffFile>>
stitchVars == <<imagePaths, outputFile>>
overlapVars == <<prevImage, currentImage, overlapArgs, overlapResult>>
runnerVars == <<scenario, updateBaselines, i, steps, checkpoints, success, pc,
                frame, baselines, screenshots, device, entry, trace>>

(***************************************************************************)
(* Bounds                                                                  *)
(***************************************************************************)
MaxPixels == 2
MaxSteps == 2
MaxScrolls == 2
MaxRows == 5           \* height of the images findOverlap is applied to
\* STRIP_FROM_BOTTOM is 200 in image-differ.ts; the model scales it to the
\* image heights it can enumerate
StripFromBottom == 2
\* width of the images of SpecMatch: a strip two rows high has fifty pixels
WideWidth == 25
MaxAmount == 7         \* scrollAmount goes up to 100 * MaxAmount
MaxCenter == 8         \* centerY goes up to 100 * MaxCenter
MaxElements == 2       \* elements of the UI tree findScrollRegion is given

(***************************************************************************)
(* Values                                                                  *)
(***************************************************************************)
Nothing == [kind |-> "nothing"]       \* undefined / not yet returned
Thrown == [kind |-> "thrown"]         \* the call threw
NoFile == [kind |-> "nofile"]         \* no file at the path
Corrupt == [kind |-> "corrupt"]       \* a file sharp cannot decode
NoName == ""                          \* a step without a name
NoPath == <<"", "", 0>>               \* an undefined path
NoData == <<"", NoFile>>              \* the empty string a loop starts from
Error == [kind |-> "error", message |-> "Error"]   \* String(error)

Min(a, b) == IF a <= b THEN a ELSE b
Max(a, b) == IF a >= b THEN a ELSE b

\* A JavaScript number that is the quotient of two integers: <<n, d>> is n/d,
\* and d = 0 is NaN (0/0), which compares false with everything.
Num(n) == <<n, 1>>
Div(n, d) == <<n, d>>
Times(r, k) == <<r[1] * k, r[2]>>
IsNaN(r) == r[2] = 0
RatLeq(r, t) == ~IsNaN(r) /\ ~IsNaN(t) /\ r[1] * t[2] <= t[1] * r[2]
RatEq(r, t) == ~IsNaN(r) /\ ~IsNaN(t) /\ r[1] * t[2] = t[1] * r[2]

(***************************************************************************)
(* Raster images: what sharp(path).raw().toBuffer() yields                 *)
(***************************************************************************)
\* RGBA pixels the inputs are built from: a reference colour, the same
\* colour fully transparent, and one whose blue channel is off by one.
Palette == { <<10, 20, 30, 255>>, <<10, 20, 30, 0>>, <<10, 20, 31, 255>> }

RECURSIVE Flatten(_, _)
Flatten(pixels, channels) ==
    IF pixels = <<>> THEN <<>>
    ELSE SubSeq(Head(pixels), 1, channels) \o Flatten(Tail(pixels), channels)

\* info.width, info.height, info.channels and the raw buffer (row-major)
MkImage(w, h, channels, pixels) ==
    [kind |-> "image", width |-> w, height |-> h, channels |-> channels,
     data |-> Flatten(pixels, channels)]

Dims == { d \in (1..MaxPixels) \X (1..MaxPixels) : d[1] * d[2] <= MaxPixels }

Images ==
    UNION { { MkImage(d[1], d[2], ch, px) : px \in [1..(d[1] * d[2]) -> Palette] } :
            d \in Dims, ch \in {3, 4} }

IsImage(f) == f.kind = "image"

\* buffer.data[idx] ?? 0   (idx is the 0-based index of the code)
At(img, idx) == IF idx + 1 \in DOMAIN img.data THEN img.data[idx + 1] ELSE 0

(***************************************************************************)
(* ImageDiffer.compare                                                     *)
(***************************************************************************)
\* the inner channel loop: any of the first min(channels, 3) bytes differ
IsDifferentMutShifted(actual, baseline, idx) ==
    \E c \in 0..(Min(actual.channels, 3) - 1) :
        At(actual, idx + c) # At(baseline, idx + c + 1)

IsDifferent(actual, baseline, idx) ==
    \E c \in 0..(Min(actual.channels, 3) - 1) :
        At(actual, idx + c) # At(baseline, idx + c)

\* the buffer offsets the pixel loop visits: 0, channels, 2*channels, ...
PixelOffsets(actual) ==
    { idx \in 0..(Len(actual.data) - 1) : idx % actual.channels = 0 }

DifferentPixels(actual, baseline) ==
    Cardinality({ idx \in PixelOffsets(actual) : IsDifferent(actual, baseline, idx) })

MissingBaselineResultMutZero ==
    [kind |-> "result", match |-> TRUE, differenceRatio |-> Num(0),
     differentPixels |-> 0, totalPixels |-> 0, diffImagePath |-> NoPath]

MissingBaselineResult ==
    [kind |-> "result", match |-> FALSE, differenceRatio |-> Num(1),
     differentPixels |-> 0, totalPixels |-> 0, diffImagePath |-> NoPath]

DimensionMismatchResultMutThreshold(actual, opts) ==
    [kind |-> "result", match |-> RatLeq(Num(1), opts.tolerance),
     differenceRatio |-> Num(1), differentPixels |-> 0,
     totalPixels |-> actual.width * actual.height, diffImagePath |-> NoPath]

DimensionMismatchResult(actual, opts) ==
    [kind |-> "result", match |-> FALSE, differenceRatio |-> Num(1),
     differentPixels |-> 0, totalPixels |-> actual.width * actual.height,
     diffImagePath |-> NoPath]

\* lines 365-369: Math.floor((r * 0.3 + g * 0.59 + b * 0.11) * 0.4) in
\* double precision.  The doubles 0.3, 0.59, 0.11 and 0.4 are not the
\* decimals they are written as, and the rounded result is never above the
\* exact value: it is below it, so that the floor is one less, for some of
\* the colours whose exact value is an integer.  FallsShort lists those
\* among the colours the images of the model are made of.
ExactGray(r, g, b) == ((r * 30 + g * 59 + b * 11) * 4) \div 1000
FallsShort == { <<0, 63, 3>> }

GrayMutExact(r, g, b) ==
    ExactGray(r, g, b)

Gray(r, g, b) ==
    IF <<r, g, b>> \in FallsShort THEN ExactGray(r, g, b) - 1 ELSE ExactGray(r, g, b)

\* the pixel the loop writes to diffBuffer at offset idx: magenta for a
\* pixel counted different, dimmed grey of the actual one otherwise
DiffPixel(actual, baseline, idx) ==
    IF IsDifferent(actual, baseline, idx)
    THEN <<255, 0, 255, 255>>
    ELSE LET gray == Gray(At(actual, idx), At(actual, idx + 1), At(actual, idx + 2))
         IN  <<gray, gray, gray, At(actual, idx + 3)>>

\* diffBuffer once the pixel loop is over, as the image toFile encodes
DiffBuffer(actual, baseline) ==
    MkImage(actual.width, actual.height, actual.channels,
            [n \in 1..(Len(actual.data) \div actual.channels) |->
                DiffPixel(actual, baseline, (n - 1) * actual.channels)])

\* if (diffBuffer && differentPixels > 0 && diffOutputPath)
WritesDiffMutAlways(actual, baseline, opts) ==
    opts.generateDiff /\ opts.diffOutputPath # NoPath

WritesDiff(actual, baseline, opts) ==
    /\ opts.generateDiff
    /\ DifferentPixels(actual, baseline) > 0
    /\ opts.diffOutputPath # NoPath

PixelCompareResultMutStrict(actual, baseline, opts) ==
    LET totalPixels == actual.width * actual.height
        differentPixels == DifferentPixels(actual, baseline)
        differenceRatio == Div(differentPixels, totalPixels)
    IN  [kind |-> "result",
         match |-> ~RatLeq(opts.tolerance, differenceRatio),
         differenceRatio |-> differenceRatio,
         differentPixels |-> differentPixels,
         totalPixels |-> totalPixels,
         diffImagePath |-> NoPath]

PixelCompareResult(actual, baseline, opts) ==
    LET totalPixels == actual.width * actual.height
        differentPixels == DifferentPixels(actual, baseline)
        differenceRatio == Div(differentPixels, totalPixels)
    IN  [kind |-> "result",
         match |-> RatLeq(differenceRatio, opts.tolerance),
         differenceRatio |-> differenceRatio,
         differentPixels |-> differentPixels,
         totalPixels |-> totalPixels,
         diffImagePath |->
             IF WritesDiff(actual, baseline, opts)
             THEN opts.diffOutputPath ELSE NoPath]

compare(actual, baseline, opts) ==
    IF baseline = NoFile THEN MissingBaselineResult
    ELSE IF ~IsImage(actual) \/ ~IsImage(baseline) THEN Thrown
    ELSE IF actual.width # baseline.width \/ actual.height # baseline.height
         THEN DimensionMismatchResult(actual, opts)
    ELSE PixelCompareResult(actual, baseline, opts)

\* the file compare leaves at diffOutputPath, given the one there before
compareDiffFile(actual, baseline, opts, before) ==
    IF /\ baseline # NoFile
       /\ IsImage(actual) /\ IsImage(baseline)
       /\ actual.width = baseline.width /\ actual.height = baseline.height
       /\ WritesDiff(actual, baseline, opts)
    THEN DiffBuffer(actual, baseline)
    ELSE before

(***************************************************************************)
(* Files of the run.  A path is <<checkpoint name, kind, index>>:          *)
(*   <<n, "png", 0>>      `${n}.png`                                       *)
(*   <<n, "segment", k>>  `${n}_segment_${k}.png`                          *)
(*   <<n, "diff", 0>>     `${n}_diff.png`                                  *)
(***************************************************************************)
Names == {"a"}

MainPath(name) == <<name, "png", 0>>
SegmentPath(name, k) == <<name, "segment", k>>
DiffPath(name) == <<name, "diff", 0>>

\* every segment index a capture loop of the model can reach
SegmentIndexes == 0..MaxScrolls

Paths ==
    { MainPath(n) : n \in Names }
    \cup { SegmentPath(n, k) : n \in Names, k \in SegmentIndexes }

existsSync(dir, path) == dir[path] # NoFile

\* ImageDiffer.updateBaseline: copyFile(screenshotPath, baselinePath)
updateBaselineMutKeep(dir, content, baselinePath) ==
    IF existsSync(dir, baselinePath) THEN dir
    ELSE [dir EXCEPT ![baselinePath] = content]

updateBaseline(dir, content, baselinePath) ==
    [dir EXCEPT ![baselinePath] = content]

\* ImageDiffer.toBase64: the base64 text of the file's bytes (equal texts
\* exactly for equal bytes)
toBase64(content) == <<"base64", content>>

(***************************************************************************)
(* ImageDiffer.stitchVertically                                            *)
(***************************************************************************)
White == <<255, 255, 255, 255>>

\* pixel (x, y) of an image as RGBA (a 3-channel image is opaque)
PixelRGBA(img, x, y) ==
    LET idx == (y * img.width + x) * img.channels
    IN  <<At(img, idx), At(img, idx + 1), At(img, idx + 2),
          IF img.channels = 4 THEN At(img, idx + 3) ELSE 255>>

\* sharp's default blend ('over') of a pixel onto the opaque white canvas
OverWhite(p) ==
    LET a == p[4]
        mix(c) == (c * a + 255 * (255 - a)) \div 255
    IN  <<mix(p[1]), mix(p[2]), mix(p[3]), 255>>

RECURSIVE SumHeights(_)
SumHeights(imgs) ==
    IF imgs = <<>> THEN 0 ELSE Head(imgs).height + SumHeights(Tail(imgs))

\* compositeOps[k].top: currentY when segment k is pushed (k from 1)
CompositeTopMutZero(imgs, k) ==
    0

CompositeTop(imgs, k) ==
    SumHeights(SubSeq(imgs, 1, k - 1))

\* the composite operations that paint canvas pixel (x, y)
Covering(imgs, x, y) ==
    { k \in 1..Len(imgs) :
        /\ CompositeTop(imgs, k) <= y
        /\ y < CompositeTop(imgs, k) + imgs[k].height
        /\ x < imgs[k].width }

stitchVertically(imgs) ==
    IF Len(imgs) = 0 THEN Thrown
    ELSE IF Len(imgs) = 1
         THEN (IF imgs[1] = NoFile THEN Thrown ELSE imgs[1])
    ELSE IF \E k \in 1..Len(imgs) : ~IsImage(imgs[k]) THEN Thrown
    ELSE LET width == imgs[1].width
             totalHeight == SumHeights(imgs)
             canvasPixel(n) ==
                 LET y == (n - 1) \div width
                     x == (n - 1) % width
                     over == Covering(imgs, x, y)
                     top == CHOOSE k \in over : \A other \in over : other <= k
                 IN  IF over = {} THEN White
                     ELSE OverWhite(PixelRGBA(imgs[top], x, y - CompositeTop(imgs, top)))
         IN  IF \E k \in 1..Len(imgs) : imgs[k].width > width THEN Thrown
             ELSE MkImage(width, totalHeight, 4,
                          [n \in 1..(width * totalHeight) |-> canvasPixel(n)])

(***************************************************************************)
(* ImageDiffer.findOverlap                                                 *)
(***************************************************************************)
Abs(n) == IF n < 0 THEN -n ELSE n

\* the catch block, and both bounds checks: { offset: 0, confidence: 0,
\* matchPosition: 0 }
ZeroOverlap ==
    [kind |-> "overlap", offset |-> 0, confidence |-> Num(0), matchPosition |-> 0]

\* sharp(...).raw().toBuffer rejected: the catch block returns
OverlapLoadFailedMutRethrow ==
    Thrown

OverlapLoadFailed ==
    ZeroOverlap

\* the channel loop: every one of R, G, B is within 5 of the other image's
IsMatch(prev, current, prevIdx, currIdx) ==
    \A c \in 0..(Min(prev.channels, 3) - 1) :
        Abs(At(prev, prevIdx + c) - At(current, currIdx + c)) <= 5

\* matchingPixels / totalPixels of the strip laid at row searchY of current
StripSimilarity(prev, current, stripStartY, stripHeight, searchY) ==
    LET width == prev.width
        channels == prev.channels
        matching ==
            { xy \in (0..(width - 1)) \X (0..(stripHeight - 1)) :
                IsMatch(prev, current,
                        ((stripStartY + xy[2]) * width + xy[1]) * channels,
                        ((searchY + xy[2]) * width + xy[1]) * channels) }
    IN  Div(Cardinality(matching), stripHeight * width)

\* similarity > other, both quotients of non-negative integers
RatGreater(r, t) == ~IsNaN(r) /\ ~IsNaN(t) /\ r[1] * t[2] > t[1] * r[2]

\* line 612: if (similarity > 0.98) break
EarlyExitMutInclusive(similarity) ==
    RatLeq(Div(98, 100), similarity)

EarlyExit(similarity) ==
    RatGreater(similarity, Div(98, 100))

\* the search loop from searchY on; best = [similarity, position]
RECURSIVE SearchFrom(_, _, _, _, _, _, _)
SearchFrom(prev, current, stripStartY, stripHeight, searchY, searchEnd, best) ==
    IF searchY > searchEnd THEN best
    ELSE LET similarity ==
                 StripSimilarity(prev, current, stripStartY, stripHeight, searchY)
             bestMatch ==
                 IF RatGreater(similarity, best.similarity)
                 THEN [similarity |-> similarity, position |-> searchY]
                 ELSE best
         IN  IF EarlyExit(similarity) THEN bestMatch
             ELSE SearchFrom(prev, current, stripStartY, stripHeight,
                             searchY + 1, searchEnd, bestMatch)

\* args = [scrollDistancePixels, stripHeight, searchRange]; stripHeight even
findOverlap(prev, current, args) ==
    IF ~IsImage(prev) \/ ~IsImage(current) THEN OverlapLoadFailed
    ELSE LET height == prev.height
             currentHeight == current.height
             stripHeight == args.stripHeight
             stripStartY == height - StripFromBottom - stripHeight \div 2
             stripEndY == stripStartY + stripHeight
             expectedPositionInCurrent == stripStartY - args.scrollDistancePixels
             searchStart == Max(0, expectedPositionInCurrent - args.searchRange)
             searchEnd == Min(currentHeight - stripHeight,
                              expectedPositionInCurrent + args.searchRange)
             bestMatch == SearchFrom(prev, current, stripStartY, stripHeight,
                                     searchStart, searchEnd,
                                     [similarity |-> Num(0), position |-> 0])
         IN  IF stripStartY < 0 \/ stripEndY > height THEN ZeroOverlap
             ELSE IF \/ expectedPositionInCurrent < 0
                     \/ expectedPositionInCurrent > currentHeight - stripHeight
                  THEN ZeroOverlap
             ELSE [kind |-> "overlap",
                   offset |-> expectedPositionInCurrent - bestMatch.position,
                   confidence |-> bestMatch.similarity,
                   matchPosition |-> bestMatch.position]

(***************************************************************************)
(* The device: simctlClient.screenshot writes one of these, or throws      *)
(***************************************************************************)
ScreenA == MkImage(1, 1, 4, << <<10, 20, 30, 255>> >>)
ScreenB == MkImage(1, 1, 4, << <<10, 20, 31, 255>> >>)
Screens == {ScreenA, ScreenB}

(***************************************************************************)
(* Scenario steps                                                          *)
(***************************************************************************)
Step(action, name, stitchImages, maxScrolls) ==
    [action |-> action, name |-> name, stitchImages |-> stitchImages,
     maxScrolls |-> maxScrolls, tolerance |-> Num(0)]

\* 'tap' stands for the cases that validate their arguments and make one
\* device call: launch_app, terminate_app, tap, swipe, type_text, open_url.
StepSet ==
    { Step("tap", NoName, FALSE, 0) }
    \cup { Step("checkpoint", n, FALSE, 0) : n \in Names }
    \cup { Step("full_page_checkpoint", n, b, MaxScrolls) : n \in Names, b \in BOOLEAN }
    \cup { Step("smart_checkpoint", n, TRUE, MaxScrolls) : n \in Names }
    \cup { Step("scroll_to_top", NoName, FALSE, MaxScrolls) }

Scenarios == UNION { [1..n -> StepSet] : n \in 0..MaxSteps }

CheckpointResult(name, match, differencePercent, baselinePath, actualPath, diffPath, isFullPage, segmentPaths) ==
    [kind |-> "checkpoint", name |-> name, match |-> match,
     differencePercent |-> differencePercent, baselinePath |-> baselinePath,
     actualPath |-> actualPath, diffPath |-> diffPath,
     isFullPage |-> isFullPage, segmentPaths |-> segmentPaths]

\* what an executeStep case hands back: the value returned (a
\* CheckpointResult, Nothing for undefined, Thrown) and the two directories
Outcome(value, bl, ss) ==
    [value |-> value, baselines |-> bl, screenshots |-> ss, written |-> <<>>]

\* the outcome of a case that called updateBaseline for these paths, in order
Wrote(outcome, paths) == [outcome EXCEPT !.written = @ \o paths]

(***************************************************************************)
(* executeStep, case 'checkpoint'                                          *)
(*   shot: what simctlClient.screenshot wrote at actualPath, or Thrown     *)
(***************************************************************************)
CheckpointCaseMutAdopt(step, shot, bl, ss, update) ==
    LET actualPath == MainPath(step.name)
        baselinePath == MainPath(step.name)
        ss1 == [ss EXCEPT ![actualPath] = shot]
        compareResult == compare(shot, bl[baselinePath],
                             [tolerance |-> step.tolerance, generateDiff |-> TRUE,
                              diffOutputPath |-> DiffPath(step.name)])
    IN  IF step.name = NoName THEN Outcome(Thrown, bl, ss)
        ELSE IF shot = Thrown THEN Outcome(Thrown, bl, ss)
        ELSE IF update
             THEN Wrote(Outcome(CheckpointResult(step.name, TRUE, Num(0), baselinePath,
                                    actualPath, NoPath, FALSE, <<>>),
                                updateBaseline(bl, shot, baselinePath), ss1),
                        <<baselinePath>>)
        ELSE IF ~existsSync(bl, baselinePath)
             THEN Outcome(CheckpointResult(step.name, FALSE, Num(100), baselinePath,
                              actualPath, NoPath, FALSE, <<>>),
                          updateBaseline(bl, shot, baselinePath), ss1)
        ELSE IF compareResult = Thrown THEN Outcome(Thrown, bl, ss1)
        ELSE Outcome(CheckpointResult(step.name, compareResult.match,
                         Times(compareResult.differenceRatio, 100),
                         baselinePath, actualPath, compareResult.diffImagePath,
                         FALSE, <<>>),
                     bl, ss1)

CheckpointCase(step, shot, bl, ss, update) ==
    LET actualPath == MainPath(step.name)
        baselinePath == MainPath(step.name)
        ss1 == [ss EXCEPT ![actualPath] = shot]
        compareResult == compare(shot, bl[baselinePath],
                             [tolerance |-> step.tolerance, generateDiff |-> TRUE,
                              diffOutputPath |-> DiffPath(step.name)])
    IN  IF step.name = NoName THEN Outcome(Thrown, bl, ss)
        ELSE IF shot = Thrown THEN Outcome(Thrown, bl, ss)
        ELSE IF update
             THEN Wrote(Outcome(CheckpointResult(step.name, TRUE, Num(0), baselinePath,
                                    actualPath, NoPath, FALSE, <<>>),
                                updateBaseline(bl, shot, baselinePath), ss1),
                        <<baselinePath>>)
        ELSE IF ~existsSync(bl, baselinePath)
             THEN Outcome(CheckpointResult(step.name, FALSE, Num(100), baselinePath,
                              actualPath, NoPath, FALSE, <<>>),
                          bl, ss1)
        ELSE IF compareResult = Thrown THEN Outcome(Thrown, bl, ss1)
        ELSE Outcome(CheckpointResult(step.name, compareResult.match,
                         Times(compareResult.differenceRatio, 100),
                         baselinePath, actualPath, compareResult.diffImagePath,
                         FALSE, <<>>),
                     bl, ss1)

(***************************************************************************)
(* executeStep, case 'full_page_checkpoint': after the capture loop        *)
(*   segs: the contents of the kept segment files, in segmentPaths order   *)
(***************************************************************************)
RatAdd(r, t) == <<r[1] * t[2] + t[1] * r[2], r[2] * t[2]>>

SegmentPaths(name, n) == [k \in 1..n |-> SegmentPath(name, k - 1)]

FullPageOptions(step, diffPath) ==
    [tolerance |-> step.tolerance, generateDiff |-> TRUE, diffOutputPath |-> diffPath]

\* stitchImages && segmentPaths.length > 0
StitchedCompare(step, segs, bl, ss, update) ==
    LET actualPath == MainPath(step.name)
        baselinePath == MainPath(step.name)
        segmentPaths == SegmentPaths(step.name, Len(segs))
        stitched == stitchVertically(segs)
        ss1 == [ss EXCEPT ![actualPath] = stitched]
        compareResult == compare(stitched, bl[baselinePath],
                                 FullPageOptions(step, DiffPath(step.name)))
    IN  IF stitched = Thrown THEN Outcome(Thrown, bl, ss)
        ELSE IF update
             THEN Wrote(Outcome(CheckpointResult(step.name, TRUE, Num(0), baselinePath,
                                    actualPath, NoPath, TRUE, segmentPaths),
                                updateBaseline(bl, stitched, baselinePath), ss1),
                        <<baselinePath>>)
        ELSE IF ~existsSync(bl, baselinePath)
             THEN Outcome(CheckpointResult(step.name, FALSE, Num(100), baselinePath,
                              actualPath, NoPath, TRUE, segmentPaths),
                          bl, ss1)
        ELSE IF compareResult = Thrown THEN Outcome(Thrown, bl, ss1)
        ELSE Outcome(CheckpointResult(step.name, compareResult.match,
                         Times(compareResult.differenceRatio, 100),
                         baselinePath, actualPath, compareResult.diffImagePath,
                         TRUE, segmentPaths),
                     bl, ss1)

\* the per-segment loop: acc = [thrown, allMatch, totalDiffPercent, baselines,
\* written]
RECURSIVE SegmentLoop(_, _, _, _, _)
SegmentLoop(step, segs, k, update, acc) ==
    IF k > Len(segs) \/ acc.thrown THEN acc
    ELSE LET segmentBaseline == SegmentPath(step.name, k - 1)
             result == compare(segs[k], acc.baselines[segmentBaseline],
                               FullPageOptions(step, <<step.name, "segment_diff", k - 1>>))
             next ==
                 IF update
                 THEN [acc EXCEPT !.baselines =
                           updateBaseline(acc.baselines, segs[k], segmentBaseline),
                                  !.written = Append(@, segmentBaseline)]
                 ELSE IF existsSync(acc.baselines, segmentBaseline)
                 THEN (IF result = Thrown THEN [acc EXCEPT !.thrown = TRUE]
                       ELSE [acc EXCEPT
                               !.allMatch = acc.allMatch /\ result.match,
                               !.totalDiffPercent =
                                   RatAdd(acc.totalDiffPercent,
                                          Times(result.differenceRatio, 100))])
                 ELSE [acc EXCEPT !.allMatch = FALSE,
                                  !.totalDiffPercent = RatAdd(acc.totalDiffPercent, Num(100))]
         IN  SegmentLoop(step, segs, k + 1, update, next)

\* line 638: segmentPaths.length > 0 ? totalDiffPercent / segmentPaths.length : 0
AvgDiffPercentMutTotal(totalDiffPercent, length) ==
    totalDiffPercent

AvgDiffPercent(totalDiffPercent, length) ==
    IF length > 0 THEN <<totalDiffPercent[1], totalDiffPercent[2] * length>>
    ELSE Num(0)

SegmentCompare(step, segs, bl, ss, update) ==
    LET acc == SegmentLoop(step, segs, 1, update,
                   [thrown |-> FALSE, allMatch |-> TRUE,
                    totalDiffPercent |-> Num(0), baselines |-> bl,
                    written |-> <<>>])
        avgDiffPercent == AvgDiffPercent(acc.totalDiffPercent, Len(segs))
    IN  IF acc.thrown THEN Wrote(Outcome(Thrown, acc.baselines, ss), acc.written)
        ELSE Wrote(Outcome(CheckpointResult(step.name,
                               IF update THEN TRUE ELSE acc.allMatch,
                               avgDiffPercent,
                               SegmentPath(step.name, 0),
                               IF Len(segs) > 0 THEN SegmentPath(step.name, 0)
                               ELSE MainPath(step.name),
                               NoPath, TRUE, SegmentPaths(step.name, Len(segs))),
                           acc.baselines, ss),
                   acc.written)

FullPageCompare(step, segs, bl, ss, update) ==
    IF step.stitchImages /\ Len(segs) > 0
    THEN StitchedCompare(step, segs, bl, ss, update)
    ELSE SegmentCompare(step, segs, bl, ss, update)

(***************************************************************************)
(* runTestCase: what the loop body does with the outcome of executeStep    *)
(***************************************************************************)
StepResult(stepIndex, action, ok, error, checkpoint) ==
    [stepIndex |-> stepIndex, action |-> action, success |-> ok,
     error |-> error, checkpoint |-> checkpoint]

\* step: the step the case works on; then: where a nested scroll_to_top
\* continues; maxScrolls, count, prevData, segmentPaths, ended, startTime:
\* loop locals;
\* overlap: what the latest findOverlap call of the capture loop returned
NoFrame == [step |-> Nothing, then |-> "", maxScrolls |-> 0, count |-> 0,
            prevData |-> NoData, segmentPaths |-> <<>>, ended |-> FALSE,
            overlap |-> Nothing, startTime |-> 0]

\* visible: the element the step looks for is in the UI tree; now: Date.now();
\* steady: the element has been in the UI tree ever since the latest
\* wait_for_element began (ghost); unlinkFails: the file system refuses to
\* delete a screenshot (the rejection part_004 line 543 swallows)
NoDevice == [visible |-> FALSE, now |-> 0, steady |-> FALSE,
             unlinkFails |-> FALSE]

\* no command or tool is in progress: runTestCase was called directly
NoEntry == [point |-> "none"]

\* the checkpoint fails the step: !checkpoint.match && !options.updateBaselines
CheckpointFails(checkpoint, update) == ~checkpoint.match /\ ~update

runTestCaseLocals == <<i, steps, checkpoints, success>>

(***************************************************************************)
(* Ghost record of the run                                                 *)
(*   executed          step indexes executeStep was called for, in order   *)
(*   threw             step indexes whose executeStep threw                *)
(*   stepsBefore,      steps and checkpoints as they were when the latest  *)
(*   checkpointsBefore executeStep was called                              *)
(*   kept              the screens the device returned to the latest step  *)
(*                     and that the step kept (checkpoint shot, segments)  *)
(*   events            the device calls the latest step completed, in      *)
(*                     order: <<"screenshot", image>> (a checkpoint or   *)
(*                     segment file), <<"probe", image>> (a screenshot to  *)
(*                     a temporary file), <<"swipe", Nothing>> (scroll     *)
(*                     down), <<"swipe_up", Nothing>> (scroll up),         *)
(*                     <<"tap", Nothing>>, <<"wait", Nothing>>,            *)
(*                     <<"load_failed", Nothing>> (findOverlap could not   *)
(*                     decode its files and returned zeros),               *)
(*                     <<"unlink_failed", Nothing>> (the duplicate segment *)
(*                     file could not be removed); kept when               *)
(*                     logging is set, which the specifications of a       *)
(*                     single checkpoint-family step do                    *)
(*   baselinesBefore   the baselines directory when a compare-mode         *)
(*                     runTestCase was called                              *)
(*   written           the paths updateBaseline was called for, in order   *)
(***************************************************************************)
NoTrace == [executed |-> <<>>, threw |-> <<>>, stepsBefore |-> <<>>,
            checkpointsBefore |-> <<>>, kept |-> <<>>, events |-> <<>>,
            logging |-> FALSE,
            baselinesBefore |-> [p \in Paths |-> NoFile], written |-> <<>>]

BeginRun ==
    IF updateBaselines THEN NoTrace
    ELSE [NoTrace EXCEPT !.baselinesBefore = baselines]

Begin(t) == [t EXCEPT !.executed = Append(@, i), !.stepsBefore = steps,
                      !.checkpointsBefore = checkpoints, !.kept = <<>>,
                      !.events = <<>>]
Keep(t, shot) == [t EXCEPT !.kept = Append(@, shot)]
Event(t, op, data) ==
    IF t.logging THEN [t EXCEPT !.events = Append(@, <<op, data>>)] ELSE t
Captured(t, shot) == IF shot = Thrown THEN t ELSE Event(t, "screenshot", shot)
Threw(t) == [t EXCEPT !.threw = Append(@, i)]
Written(t, paths) == [t EXCEPT !.written = @ \o paths]

\* executeStep returned (lines 168-186)
StepReturnedMutKeepSuccess(checkpoint) ==
    LET failed == checkpoint # Nothing /\ CheckpointFails(checkpoint, updateBaselines)
    IN  /\ steps' = Append(steps,
                       StepResult(i, scenario[i + 1].action, ~failed, Nothing, checkpoint))
        /\ checkpoints' = IF checkpoint # Nothing THEN Append(checkpoints, checkpoint)
                          ELSE checkpoints
        /\ success' = success
        /\ i' = i + 1
        /\ pc' = "loop"
        /\ frame' = NoFrame

StepReturnedMutStepOk(checkpoint) ==
    LET failed == checkpoint # Nothing /\ CheckpointFails(checkpoint, updateBaselines)
    IN  /\ steps' = Append(steps,
                       StepResult(i, scenario[i + 1].action, TRUE, Nothing, checkpoint))
        /\ checkpoints' = IF checkpoint # Nothing THEN Append(checkpoints, checkpoint)
                          ELSE checkpoints
        /\ success' = (success /\ ~failed)
        /\ i' = i + 1
        /\ pc' = "loop"
        /\ frame' = NoFrame

StepReturnedMutBreak(checkpoint) ==
    LET failed == checkpoint # Nothing /\ CheckpointFails(checkpoint, updateBaselines)
    IN  /\ steps' = Append(steps,
                       StepResult(i, scenario[i + 1].action, ~failed, Nothing, checkpoint))
        /\ checkpoints' = IF checkpoint # Nothing THEN Append(checkpoints, checkpoint)
                          ELSE checkpoints
        /\ success' = (success /\ ~failed)
        /\ i' = IF failed THEN i ELSE i + 1
        /\ pc' = IF failed THEN "break" ELSE "loop"
        /\ frame' = NoFrame

StepReturnedMutNoPush(checkpoint) ==
    LET failed == checkpoint # Nothing /\ CheckpointFails(checkpoint, updateBaselines)
    IN  /\ steps' = Append(steps,
                       StepResult(i, scenario[i + 1].action, ~failed, Nothing, checkpoint))
        /\ checkpoints' = checkpoints
        /\ success' = (success /\ ~failed)
        /\ i' = i + 1
        /\ pc' = "loop"
        /\ frame' = NoFrame

StepReturned(checkpoint) ==
    LET failed == checkpoint # Nothing /\ CheckpointFails(checkpoint, updateBaselines)
    IN  /\ steps' = Append(steps,
                       StepResult(i, scenario[i + 1].action, ~failed, Nothing, checkpoint))
        /\ checkpoints' = IF checkpoint # Nothing THEN Append(checkpoints, checkpoint)
                          ELSE checkpoints
        /\ success' = (success /\ ~failed)
        /\ i' = i + 1
        /\ pc' = "loop"
        /\ frame' = NoFrame

\* executeStep threw (lines 187-199): record, fail, break
StepThrewMutContinue ==
    /\ steps' = Append(steps,
                   StepResult(i, scenario[i + 1].action, FALSE, Error, Nothing))
    /\ checkpoints' = checkpoints
    /\ success' = FALSE
    /\ i' = i + 1
    /\ pc' = "loop"
    /\ frame' = NoFrame

StepThrewMutPartial ==
    /\ steps' = Append(steps,
                   StepResult(i, scenario[i + 1].action, FALSE, Error, Nothing))
    /\ checkpoints' =
           Append(checkpoints,
                  CheckpointResult(scenario[i + 1].name, FALSE, Num(100), NoPath,
                                   NoPath, NoPath, FALSE, <<>>))
    /\ success' = FALSE
    /\ i' = i
    /\ pc' = "break"
    /\ frame' = NoFrame

StepThrew ==
    /\ steps' = Append(steps,
                   StepResult(i, scenario[i + 1].action, FALSE, Error, Nothing))
    /\ checkpoints' = checkpoints
    /\ success' = FALSE
    /\ i' = i
    /\ pc' = "break"
    /\ frame' = NoFrame

\* a throw inside a case, before it touched a file
Throw(t) ==
    /\ StepThrew
    /\ trace' = Threw(t)
    /\ UNCHANGED <<baselines, screenshots>>

\* the end of an executeStep case called from runTestCase
Finish(outcome, t) ==
    /\ baselines' = outcome.baselines
    /\ screenshots' = outcome.screenshots
    /\ IF outcome.value = Thrown
       THEN StepThrew /\ trace' = Threw(Written(t, outcome.written))
       ELSE StepReturned(outcome.value) /\ trace' = Written(t, outcome.written)

AtStep(action) ==
    /\ pc = "loop"
    /\ i < Len(scenario)
    /\ scenario[i + 1].action = action

\* the test case and the run options are arguments, never assigned; a run
\* makes no call of its own to the compare entry point of SpecCompare
CallFrame ==
    UNCHANGED <<compareVars, stitchVars, overlapVars, scenario, updateBaselines, entry>>

\* the cases of the capture family take what the device shows as it comes
\* (ScreenshotOutcomes) and keep no account of the element or the clock
RunFrame == CallFrame /\ UNCHANGED device

\* simctlClient.screenshot (with the reads that follow it): a screen, or a throw
ScreenshotOutcomes == Screens \cup {Thrown}

(***************************************************************************)
(* Cases with a single device call                                         *)
(***************************************************************************)
SimpleStep ==
    /\ RunFrame
    /\ AtStep("tap")
    /\ \E ok \in BOOLEAN :
           Finish(Outcome(IF ok THEN Nothing ELSE Thrown, baselines, screenshots),
                  Begin(trace))

Checkpoint ==
    /\ RunFrame
    /\ AtStep("checkpoint")
    /\ \E shot \in ScreenshotOutcomes :
           Finish(CheckpointCase(scenario[i + 1], shot, baselines, screenshots,
                                 updateBaselines),
                  Keep(Captured(Begin(trace), shot), shot))

(***************************************************************************)
(* case 'full_page_checkpoint' (lines 463-650)                             *)
(***************************************************************************)
\* lines 464-513: the first segment, before any scrolling
FirstSegment(step, t) ==
    \E shot \in ScreenshotOutcomes :
        IF shot = Thrown
        THEN Throw(t)
        ELSE /\ screenshots' = [screenshots EXCEPT ![SegmentPath(step.name, 0)] = shot]
             /\ frame' = [NoFrame EXCEPT !.step = step,
                                         !.maxScrolls = step.maxScrolls,
                                         !.count = 1,
                                         !.prevData = toBase64(shot),
                                         !.segmentPaths = <<SegmentPath(step.name, 0)>>]
             /\ pc' = "capture_loop"
             /\ trace' = Keep(Event(t, "screenshot", shot), shot)
             /\ UNCHANGED <<runTestCaseLocals, baselines>>

FullPageStart ==
    /\ RunFrame
    /\ AtStep("full_page_checkpoint")
    /\ FirstSegment(scenario[i + 1], Begin(trace))

\* line 516: while (scrollCount < maxScrolls)
CaptureLoopRunsMutInclusive(scrollCount, maxScrolls) ==
    scrollCount <= maxScrolls

CaptureLoopRuns(scrollCount, maxScrolls) ==
    scrollCount < maxScrolls

\* line 541: if (currentData === prevScreenshotData)
ReachedBottomMutNever(currentData, prevScreenshotData) ==
    FALSE

ReachedBottomMutInverted(currentData, prevScreenshotData) ==
    currentData # prevScreenshotData

ReachedBottom(currentData, prevScreenshotData) ==
    currentData = prevScreenshotData

\* line 548: what findOverlap can return for two device screenshots; the
\* scroll distance and the screen contents decide which, so every result
\* is possible for every pair of screenshots
OverlapResults ==
    {ZeroOverlap,
     [kind |-> "overlap", offset |-> 1, confidence |-> Num(1), matchPosition |-> 0]}

\* lines 548-555: the overlap is logged, the segment is pushed
PushSegmentMutTrustOverlap(overlap, segmentPaths, segmentPath) ==
    IF RatGreater(overlap.confidence, Num(0)) THEN segmentPaths
    ELSE Append(segmentPaths, segmentPath)

PushSegment(overlap, segmentPaths, segmentPath) ==
    Append(segmentPaths, segmentPath)

\* line 543: await unlink(segmentPath).catch(() => {}); removed is whether
\* the file system removed the file (a failure is ignored)
UnlinkMutKeep(ss, segmentPath, shot, removed) ==
    [ss EXCEPT ![segmentPath] = shot]

Unlink(ss, segmentPath, shot, removed) ==
    [ss EXCEPT ![segmentPath] = IF removed THEN NoFile ELSE shot]

\* lines 529-533: the edge tap that stops the inertia, then the settle wait
StopAndSettleMutNoWait(swiped) ==
    Event(swiped, "tap", Nothing)

StopAndSettle(swiped) ==
    Event(Event(swiped, "tap", Nothing), "wait", Nothing)

\* lines 516-559: one turn of while (scrollCount < maxScrolls)
FullPageScroll ==
    /\ RunFrame
    /\ pc = "capture_loop"
    /\ ~frame.ended
    /\ CaptureLoopRuns(frame.count, frame.maxScrolls)
    /\ \E shot \in ScreenshotOutcomes :
        LET segmentPath == SegmentPath(frame.step.name, frame.count)
            swiped == Event(trace, "swipe", Nothing)
            waited == StopAndSettle(swiped)
            captured == Event(waited, "screenshot", shot)
        IN  IF shot = Thrown
            THEN \* the swipe, the tap or the screenshot threw
                 \E t \in {trace, swiped, waited} : Throw(t)
            ELSE IF ReachedBottom(toBase64(shot), frame.prevData)
            THEN \* same as previous: unlink the duplicate and break
                 LET removed == ~device.unlinkFails IN
                 /\ screenshots' = Unlink(screenshots, segmentPath, shot, removed)
                 /\ frame' = [frame EXCEPT !.ended = TRUE, !.overlap = Nothing]
                 /\ trace' = IF removed THEN captured
                             ELSE Event(captured, "unlink_failed", Nothing)
                 /\ UNCHANGED <<runTestCaseLocals, pc, baselines>>
            ELSE \* findOverlap could not load the two files: it returns
                 \* what its catch block returns
                 \E overlap \in OverlapResults, loaded \in BOOLEAN :
                 /\ ~loaded => overlap = OverlapLoadFailed
                 /\ screenshots' = [screenshots EXCEPT ![segmentPath] = shot]
                 /\ frame' = [frame EXCEPT
                                !.segmentPaths = PushSegment(overlap, @, segmentPath),
                                !.prevData = toBase64(shot),
                                !.count = @ + 1,
                                !.overlap = overlap]
                 /\ trace' = Keep(IF loaded THEN captured
                                  ELSE Event(captured, "load_failed", Nothing), shot)
                 /\ UNCHANGED <<runTestCaseLocals, pc, baselines>>

\* lines 561-649: the loop is over; stitch or compare per segment
FullPageFinish ==
    /\ RunFrame
    /\ pc = "capture_loop"
    /\ frame.ended \/ ~CaptureLoopRuns(frame.count, frame.maxScrolls)
    /\ Finish(FullPageCompare(frame.step,
                  [k \in 1..Len(frame.segmentPaths) |-> screenshots[frame.segmentPaths[k]]],
                  baselines, screenshots, updateBaselines),
              trace)

(***************************************************************************)
(* case 'scroll_to_top' (lines 312-361)                                    *)
(***************************************************************************)
SmartScrollToTopMax == 20

\* line 315: const maxScrolls = step.maxScrolls ?? 20 (a step record without
\* the field is a step whose maxScrolls is undefined)
DefaultTopMaxScrolls == 20
TopMaxScrolls(step) ==
    IF "maxScrolls" \in DOMAIN step THEN step.maxScrolls ELSE DefaultTopMaxScrolls

\* line 352: if (currentData === prevData)
ReachedTopMutNever(currentData, prevData) ==
    FALSE

ReachedTop(currentData, prevData) ==
    currentData = prevData

\* lines 333-336: the initial screenshot
InitialScreenshot(step, maxScrolls, then, t) ==
    \E shot \in ScreenshotOutcomes :
        IF shot = Thrown
        THEN Throw(t)
        ELSE /\ frame' = [NoFrame EXCEPT !.step = step, !.then = then,
                                         !.maxScrolls = maxScrolls,
                                         !.prevData = toBase64(shot)]
             /\ pc' = "top_loop"
             /\ trace' = Event(t, "probe", shot)
             /\ UNCHANGED <<runTestCaseLocals, baselines, screenshots>>

ScrollToTopStart ==
    /\ RunFrame
    /\ AtStep("scroll_to_top")
    /\ InitialScreenshot(scenario[i + 1], TopMaxScrolls(scenario[i + 1]), "return",
                         Begin(trace))

\* lines 338-359: one turn of for (i < maxScrolls)
ScrollToTopScroll ==
    /\ RunFrame
    /\ pc = "top_loop"
    /\ ~frame.ended
    /\ frame.count < frame.maxScrolls
    /\ \E shot \in ScreenshotOutcomes :
        LET swiped == Event(trace, "swipe_up", Nothing)
            waited == Event(Event(swiped, "tap", Nothing), "wait", Nothing)
        IN  IF shot = Thrown
            THEN \* the swipe, the tap or the screenshot threw
                 \E t \in {trace, swiped, waited} : Throw(t)
            ELSE /\ frame' = IF ReachedTop(toBase64(shot), frame.prevData)
                             THEN [frame EXCEPT !.ended = TRUE]
                             ELSE [frame EXCEPT !.prevData = toBase64(shot),
                                                !.count = @ + 1]
                 /\ trace' = Event(waited, "probe", shot)
                 /\ UNCHANGED <<runTestCaseLocals, pc, baselines, screenshots>>

\* line 360: break out of the case; back in runTestCase or in smart_checkpoint
ScrollToTopEnd ==
    /\ RunFrame
    /\ pc = "top_loop"
    /\ frame.ended \/ frame.count >= frame.maxScrolls
    /\ IF frame.then = "return"
       THEN Finish(Outcome(Nothing, baselines, screenshots), trace)
       ELSE /\ pc' = "full_page"
            /\ frame' = [NoFrame EXCEPT !.step = frame.step]
            /\ UNCHANGED <<runTestCaseLocals, baselines, screenshots, trace>>

(***************************************************************************)
(* case 'smart_checkpoint' (lines 652-759)                                 *)
(*   the three detection screenshots go to files of their own              *)
(*   (`${name}_scroll_detect_*.png`), which nothing reads back             *)
(***************************************************************************)
\* line 696: if (afterDownData !== baselineData), else try the other way
TriesUpMutAlways(baselineData, afterDownData) ==
    TRUE

TriesUp(baselineData, afterDownData) ==
    ~(afterDownData # baselineData)

\* lines 668-723: scroll down, and up only when down changed nothing
hasScrollableMutDownOnly(baselineData, afterDownData, afterUpData) ==
    afterDownData # baselineData

hasScrollable(baselineData, afterDownData, afterUpData) ==
    IF ~TriesUp(baselineData, afterDownData) THEN TRUE
    ELSE afterUpData # afterDownData

\* lines 679-694 and 703-714: the device calls of the detection, in order
DetectDown(t, before, afterDown) ==
    Event(Event(Event(Event(Event(t, "probe", before), "swipe", Nothing),
                      "tap", Nothing), "wait", Nothing), "probe", afterDown)

DetectUp(t, afterUp) ==
    Event(Event(Event(Event(t, "swipe_up", Nothing), "tap", Nothing),
                "wait", Nothing), "probe", afterUp)

SmartDetect ==
    /\ RunFrame
    /\ AtStep("smart_checkpoint")
    /\ \E before \in Screens, afterDown \in Screens, afterUp \in Screens :
         LET begun == Begin(trace)
             down == DetectDown(begun, before, afterDown)
             up == TriesUp(toBase64(before), toBase64(afterDown))
         IN  \/ \* a device call of the detection threw
                \E t \in {begun, Event(begun, "probe", before)}
                          \cup (IF up THEN {down} ELSE {}) :
                    Throw(t)
             \/ /\ ~up => afterUp = afterDown   \* no third capture then
                /\ frame' = [NoFrame EXCEPT !.step = scenario[i + 1]]
                /\ pc' = IF hasScrollable(toBase64(before), toBase64(afterDown),
                                          toBase64(afterUp))
                         THEN "smart_top" ELSE "smart_plain"
                /\ trace' = IF up THEN DetectUp(down, afterUp) ELSE down
                /\ UNCHANGED <<runTestCaseLocals, baselines, screenshots>>

\* lines 732-738: executeStep(scrollToTopStep)
SmartScrollToTop ==
    /\ RunFrame
    /\ pc = "smart_top"
    /\ InitialScreenshot(frame.step, SmartScrollToTopMax, "full_page", trace)

\* lines 741-750: executeStep(scrollStep)
SmartFullPage ==
    /\ RunFrame
    /\ pc = "full_page"
    /\ FirstSegment([frame.step EXCEPT !.action = "full_page_checkpoint"], trace)

\* lines 753-757: executeStep(checkpointStep)
SmartPlain ==
    /\ RunFrame
    /\ pc = "smart_plain"
    /\ \E shot \in ScreenshotOutcomes :
           Finish(CheckpointCase([frame.step EXCEPT !.action = "checkpoint"], shot,
                                 baselines, screenshots, updateBaselines),
                  Keep(Captured(trace, shot), shot))

(***************************************************************************)
(* runTestCase                                                             *)
(***************************************************************************)
\* lines 142-149: mkdir of the screenshots, diffs and baselines directories,
\* awaited outside the try block of the loop: a rejection (a path that is a
\* file, a read-only or full volume) rejects runTestCase
EnsureDirectories ==
    /\ RunFrame
    /\ pc = "start"
    /\ \E created \in BOOLEAN : pc' = IF created THEN "loop" ELSE "rejected"
    /\ UNCHANGED <<runTestCaseLocals, frame, baselines, screenshots, trace>>

\* lines 202-213: the loop ended or broke; return the TestCaseResult
Return ==
    /\ RunFrame
    /\ \/ pc = "loop" /\ i >= Len(scenario)
       \/ pc = "break"
    /\ pc' = "done"
    /\ UNCHANGED <<runTestCaseLocals, frame, baselines, screenshots, trace>>

\* baselines a test case can start with
MainBaselines == {NoFile, Corrupt, ScreenA, stitchVertically(<<ScreenA, ScreenB>>)}
SegmentBaseline(k) == IF k % 2 = 0 THEN ScreenA ELSE ScreenB
InitialBaselines ==
    { [p \in Paths |->
         IF p[2] = "png" THEN main
         ELSE IF p[3] < present THEN SegmentBaseline(p[3]) ELSE NoFile] :
      main \in MainBaselines, present \in {0, 1, MaxScrolls + 1} }

CompareIdle ==
    /\ actualFile = NoFile
    /\ baselineFile = NoFile
    /\ options = Nothing
    /\ diffResult = Nothing
    /\ cpResult = Nothing
    /\ diffFile = NoFile

StitchIdle ==
    /\ imagePaths = <<>>
    /\ outputFile = Nothing

OverlapIdle ==
    /\ prevImage = NoFile
    /\ currentImage = NoFile
    /\ overlapArgs = Nothing
    /\ overlapResult = Nothing

Init ==
    /\ CompareIdle
    /\ StitchIdle
    /\ OverlapIdle
    /\ scenario \in Scenarios
    /\ updateBaselines \in BOOLEAN
    /\ i = 0
    /\ steps = <<>>
    /\ checkpoints = <<>>
    /\ success = TRUE
    /\ pc = "start"
    /\ frame = NoFrame
    /\ baselines \in InitialBaselines
    /\ screenshots = [p \in Paths |-> NoFile]
    /\ device = NoDevice
    /\ entry = NoEntry
    /\ trace = BeginRun

Next ==
    \/ EnsureDirectories
    \/ SimpleStep
    \/ Checkpoint
    \/ FullPageStart
    \/ FullPageScroll
    \/ FullPageFinish
    \/ ScrollToTopStart
    \/ ScrollToTopScroll
    \/ ScrollToTopEnd
    \/ SmartDetect
    \/ SmartScrollToTop
    \/ SmartFullPage
    \/ SmartPlain
    \/ Return

Spec == Init /\ [][Next]_vars

\* runTestCase is one chain of awaits: when the call it awaits settles, the
\* JavaScript event loop resumes it, so a step that can be taken is taken
FairSpec == Spec /\ WF_vars(Next)

(***************************************************************************)
(* SpecCompare: compare, and the compare-mode 'checkpoint' case, applied   *)
(* to an actual file, a baseline file and options drawn from bounded sets  *)
(***************************************************************************)
Tolerances == {Num(0), Div(1, 2), Num(1)}

RunnerIdle ==
    /\ scenario = <<>>
    /\ updateBaselines = FALSE
    /\ i = 0
    /\ steps = <<>>
    /\ checkpoints = <<>>
    /\ success = TRUE
    /\ pc = "idle"
    /\ frame = NoFrame
    /\ baselines = [p \in Paths |-> NoFile]
    /\ screenshots = [p \in Paths |-> NoFile]
    /\ device = NoDevice
    /\ entry = NoEntry
    /\ trace = NoTrace

InitCompare ==
    /\ RunnerIdle
    /\ StitchIdle
    /\ OverlapIdle
    /\ actualFile \in Images \cup {Corrupt}
    /\ baselineFile \in Images \cup {Corrupt, NoFile}
    /\ options \in [tolerance : Tolerances, generateDiff : BOOLEAN,
                    diffOutputPath : {DiffPath("a"), NoPath}]
    /\ diffResult = Nothing
    /\ cpResult = Nothing
    /\ diffFile = NoFile

\* imageDiffer.compare(actualPath, baselinePath, options)
Compare ==
    /\ UNCHANGED runnerVars
    /\ diffResult = Nothing
    /\ diffResult' = compare(actualFile, baselineFile, options)
    /\ diffFile' = compareDiffFile(actualFile, baselineFile, options, diffFile)
    /\ UNCHANGED <<actualFile, baselineFile, options, cpResult>>
    /\ UNCHANGED <<stitchVars, overlapVars>>

\* executeStep({action: 'checkpoint', name, tolerance}) with updateBaselines
\* false, the screenshot being actualFile and the baseline baselineFile
CheckpointStep ==
    /\ UNCHANGED runnerVars
    /\ cpResult = Nothing
    /\ cpResult' =
         CheckpointCase([Step("checkpoint", "a", FALSE, 0) EXCEPT
                            !.tolerance = options.tolerance],
                        actualFile,
                        [p \in Paths |-> IF p = MainPath("a") THEN baselineFile ELSE NoFile],
                        [p \in Paths |-> NoFile],
                        FALSE).value
    /\ UNCHANGED <<actualFile, baselineFile, options, diffResult, diffFile>>
    /\ UNCHANGED <<stitchVars, overlapVars>>

NextCompare == Compare \/ CheckpointStep

SpecCompare == InitCompare /\ [][NextCompare]_vars

(***************************************************************************)
(* SpecDiff: ImageDiffer.compare with generateDiff and a diffOutputPath,   *)
(* applied to two-pixel images of colours at which the dimmed grey is 14   *)
(* (exactly 15), 15, 102 and 7                                             *)
(***************************************************************************)
DimPalette ==
    { <<0, 63, 3, 255>>, <<0, 63, 4, 255>>, <<255, 255, 255, 255>>, <<10, 20, 30, 128>> }

DiffImages ==
    UNION { { MkImage(d[1], d[2], ch, px) : px \in [1..2 -> DimPalette] } :
            d \in { <<1, 2>>, <<2, 1>> }, ch \in {3, 4} }

InitDiff ==
    /\ RunnerIdle
    /\ StitchIdle
    /\ OverlapIdle
    /\ actualFile \in DiffImages
    /\ baselineFile \in DiffImages
    /\ options \in [tolerance : Tolerances, generateDiff : {TRUE},
                    diffOutputPath : {DiffPath("a")}]
    /\ diffResult = Nothing
    /\ cpResult = Nothing
    /\ diffFile = NoFile

SpecDiff == InitDiff /\ [][Compare]_vars

(***************************************************************************)
(* SpecStitch: ImageDiffer.stitchVertically applied to up to three files   *)
(***************************************************************************)
\* the files at imagePaths: images one pixel wide, two-pixel-wide RGBA rows,
\* a file sharp cannot decode and a missing file
StitchFiles ==
    { img \in Images : img.width = 1 }
    \cup { MkImage(2, 1, 4, <<p, q>>) : p, q \in {<<10, 20, 30, 255>>, <<10, 20, 31, 255>>} }
    \cup {Corrupt, NoFile}

InitStitch ==
    /\ RunnerIdle
    /\ CompareIdle
    /\ OverlapIdle
    /\ imagePaths \in UNION { [1..n -> StitchFiles] : n \in 0..3 }
    /\ outputFile = Nothing

\* imageDiffer.stitchVertically(imagePaths, outputPath)
Stitch ==
    /\ outputFile = Nothing
    /\ outputFile' = stitchVertically(imagePaths)
    /\ UNCHANGED <<imagePaths, compareVars, overlapVars, runnerVars>>

NextStitch == Stitch

SpecStitch == InitStitch /\ [][NextStitch]_vars

(***************************************************************************)
(* SpecOverlap: ImageDiffer.findOverlap applied to two files               *)
(***************************************************************************)
\* two rows that differ by more than the tolerance of 5 in blue
RowPalette == { <<10, 20, 30, 255>>, <<10, 20, 40, 255>> }

\* RGBA images one pixel wide and up to MaxRows high
Columns ==
    UNION { { MkImage(1, h, 4, px) : px \in [1..h -> RowPalette] } : h \in 1..MaxRows }

OverlapArgs ==
    [scrollDistancePixels : 0..(MaxRows - 2), stripHeight : {2}, searchRange : {1, 2}]

InitOverlap ==
    /\ RunnerIdle
    /\ CompareIdle
    /\ StitchIdle
    /\ prevImage \in Columns \cup {Corrupt, NoFile}
    /\ currentImage \in Columns \cup {Corrupt, NoFile}
    /\ overlapArgs \in OverlapArgs
    /\ overlapResult = Nothing

\* imageDiffer.findOverlap(prevImagePath, currentImagePath, scrollDistancePixels, options)
FindOverlap ==
    /\ overlapResult = Nothing
    /\ overlapResult' = findOverlap(prevImage, currentImage, overlapArgs)
    /\ UNCHANGED <<prevImage, currentImage, overlapArgs>>
    /\ UNCHANGED <<compareVars, stitchVars, runnerVars>>

NextOverlap == FindOverlap

SpecOverlap == InitOverlap /\ [][NextOverlap]_vars

(***************************************************************************)
(* SpecMatch: ImageDiffer.findOverlap applied to two files WideWidth wide, *)
(* whose rows differ in no pixel or in one, and high enough for the strip  *)
(***************************************************************************)
\* a row of equal pixels, and the same row with its last pixel changed by
\* more than the tolerance of 5
PlainRow == [x \in 1..WideWidth |-> <<10, 20, 30, 255>>]
MarkedRow == [PlainRow EXCEPT ![WideWidth] = <<10, 20, 40, 255>>]

\* the raw RGBA buffer of an image made of these rows (row-major)
WideImage(rows) ==
    [kind |-> "image", width |-> WideWidth, height |-> Len(rows), channels |-> 4,
     data |-> [n \in 1..(WideWidth * Len(rows) * 4) |->
                  rows[((n - 1) \div (WideWidth * 4)) + 1]
                      [(((n - 1) % (WideWidth * 4)) \div 4) + 1]
                      [((n - 1) % 4) + 1]]]

WideImages ==
    UNION { { WideImage(rows) : rows \in [1..h -> {PlainRow, MarkedRow}] } :
            h \in {MaxRows} }

InitMatch ==
    /\ RunnerIdle
    /\ CompareIdle
    /\ StitchIdle
    /\ prevImage \in WideImages
    /\ currentImage \in WideImages
    /\ overlapArgs \in OverlapArgs
    /\ overlapResult = Nothing

SpecMatch == InitMatch /\ [][NextOverlap]_vars

(***************************************************************************)
(* SpecCapture: runTestCase over a scenario of one full_page_checkpoint    *)
(* step, for every maxScrolls from 0 up, every capture source and a file   *)
(* system that deletes the duplicate segment or refuses to                 *)
(***************************************************************************)
FileSystems ==
    { [NoDevice EXCEPT !.unlinkFails = fails] : fails \in BOOLEAN }

CaptureScenarios ==
    { <<Step("full_page_checkpoint", n, b, m)>> :
        n \in Names, b \in BOOLEAN, m \in 0..(MaxScrolls + 1) }

InitCapture ==
    /\ CompareIdle
    /\ StitchIdle
    /\ OverlapIdle
    /\ scenario \in CaptureScenarios
    /\ updateBaselines \in BOOLEAN
    /\ i = 0
    /\ steps = <<>>
    /\ checkpoints = <<>>
    /\ success = TRUE
    /\ pc = "start"
    /\ frame = NoFrame
    /\ baselines \in InitialBaselines
    /\ screenshots = [p \in Paths |-> NoFile]
    /\ device \in FileSystems
    /\ entry = NoEntry
    /\ trace = [BeginRun EXCEPT !.logging = TRUE]

NextCapture ==
    \/ EnsureDirectories
    \/ FullPageStart
    \/ FullPageScroll
    \/ FullPageFinish
    \/ Return

SpecCapture == InitCapture /\ [][NextCapture]_vars

(***************************************************************************)
(* SpecTop: runTestCase over a scenario of one scroll_to_top step, with    *)
(* maxScrolls given from 0 up or left out                                  *)
(***************************************************************************)
TopStep == [action |-> "scroll_to_top", name |-> NoName, stitchImages |-> FALSE,
            tolerance |-> Num(0)]

TopScenarios ==
    { <<Step("scroll_to_top", NoName, FALSE, m)>> : m \in 0..(MaxScrolls + 1) }
    \cup { <<TopStep>> }

InitTop ==
    /\ CompareIdle
    /\ StitchIdle
    /\ OverlapIdle
    /\ scenario \in TopScenarios
    /\ updateBaselines \in BOOLEAN
    /\ i = 0
    /\ steps = <<>>
    /\ checkpoints = <<>>
    /\ success = TRUE
    /\ pc = "start"
    /\ frame = NoFrame
    /\ baselines \in InitialBaselines
    /\ screenshots = [p \in Paths |-> NoFile]
    /\ device = NoDevice
    /\ entry = NoEntry
    /\ trace = [BeginRun EXCEPT !.logging = TRUE]

NextTop ==
    \/ EnsureDirectories
    \/ ScrollToTopStart
    \/ ScrollToTopScroll
    \/ ScrollToTopEnd
    \/ Return

SpecTop == InitTop /\ [][NextTop]_vars

(***************************************************************************)
(* SpecSmart: runTestCase over a scenario of one smart_checkpoint step,    *)
(* for every maxScrolls from 0 up and every capture source                 *)
(***************************************************************************)
SmartScenarios ==
    { <<Step("smart_checkpoint", n, b, m)>> :
        n \in Names, b \in BOOLEAN, m \in {1, MaxScrolls} }

\* a main baseline that is missing, or present and possibly unreadable,
\* segment baselines missing or present with it
SmartBaselines ==
    { b \in InitialBaselines :
        /\ b[MainPath("a")] \in {NoFile, Corrupt, ScreenA}
        /\ b[SegmentPath("a", 0)] = NoFile <=> b[MainPath("a")] = NoFile }

InitSmart ==
    /\ CompareIdle
    /\ StitchIdle
    /\ OverlapIdle
    /\ scenario \in SmartScenarios
    /\ updateBaselines \in BOOLEAN
    /\ i = 0
    /\ steps = <<>>
    /\ checkpoints = <<>>
    /\ success = TRUE
    /\ pc = "start"
    /\ frame = NoFrame
    /\ baselines \in SmartBaselines
    /\ screenshots = [p \in Paths |-> NoFile]
    /\ device = NoDevice
    /\ entry = NoEntry
    /\ trace = [BeginRun EXCEPT !.logging = TRUE]

NextSmart ==
    \/ EnsureDirectories
    \/ SmartDetect
    \/ SmartScrollToTop
    \/ ScrollToTopScroll
    \/ ScrollToTopEnd
    \/ SmartFullPage
    \/ FullPageScroll
    \/ FullPageFinish
    \/ SmartPlain
    \/ Return

SpecSmart == InitSmart /\ [][NextSmart]_vars

(***************************************************************************)
(* SpecElement: runTestCase of core/scenario-runner.ts over a scenario     *)
(* that starts with a wait_for_element or a scroll_to_element step         *)
(***************************************************************************)
MaxSwipes == 2
MaxTimeouts == 2
MaxLatency == 1

PollInterval == 500
DefaultTimeoutMs == 8000
DefaultMaxSwipes == 10

\* step.timeoutMs and step.distance are optional numbers: <<n>>, or <<>>
\* when the step leaves them out
Given(n) == <<n>>
NotGiven == <<>>

ElementStep(action, timeoutMs, distance) ==
    [action |-> action, name |-> NoName, timeoutMs |-> timeoutMs, distance |-> distance]

Timeouts == {Given(250 * k) : k \in 0..MaxTimeouts} \cup {NotGiven}
Distances == {Given(d) : d \in 0..MaxSwipes} \cup {NotGiven}

\* how long a describeAll takes, and how late a timer fires
Latencies == {100 * k : k \in 0..MaxLatency}

ElementScenarios ==
    LET first == { ElementStep("wait_for_element", t, NotGiven) : t \in Timeouts }
                 \cup { ElementStep("scroll_to_element", NotGiven, d) : d \in Distances }
    IN  { <<e>> : e \in first } \cup { <<e, Step("tap", NoName, FALSE, 0)>> : e \in first }

\* line 339: step.timeoutMs ?? 8000
TimeoutMs(step) ==
    IF step.timeoutMs = NotGiven THEN DefaultTimeoutMs ELSE step.timeoutMs[1]

\* line 365: step.distance ?? 10
MaxSwipesOf(step) ==
    IF step.distance = NotGiven THEN DefaultMaxSwipes ELSE step.distance[1]

\* the element cases return undefined
Found(t) == Finish(Outcome(Nothing, baselines, screenshots), t)

\* throw new Error(`Element not found ...`)
NotFound(t) == Throw(Event(t, "not_found", Nothing))

\* line 341: const startTime = Date.now()
WaitForElementStart ==
    /\ CallFrame
    /\ AtStep("wait_for_element")
    /\ frame' = [NoFrame EXCEPT !.step = scenario[i + 1], !.startTime = device.now]
    /\ pc' = "wait_loop"
    /\ device' = [device EXCEPT !.steady = device.visible]
    /\ trace' = Begin(trace)
    /\ UNCHANGED <<runTestCaseLocals, baselines, screenshots>>

\* the latest poll of the loop: the log keeps it in place of the one before
Polled(t, elapsed, found) ==
    [t EXCEPT !.events = <<<<"poll", [elapsed |-> elapsed, found |-> found]>>>>]

\* line 343: while (Date.now() - startTime < timeoutMs)
PollAgainMutInclusive(now, startTime, timeoutMs) ==
    now - startTime <= timeoutMs

PollAgain(now, startTime, timeoutMs) ==
    now - startTime < timeoutMs

\* lines 343-356: one turn of the loop: describeAll, findBest, and either
\* return or wait(pollInterval); the element comes and goes as it likes
WaitForElementPoll ==
    /\ CallFrame
    /\ pc = "wait_loop"
    /\ PollAgain(device.now, frame.startTime, TimeoutMs(frame.step))
    /\ \E latency \in Latencies, late \in Latencies, atQuery \in BOOLEAN,
          afterWait \in BOOLEAN, answered \in BOOLEAN :
         LET found == atQuery
             polled == Polled(trace, device.now - frame.startTime, found)
             queried == [device EXCEPT !.visible = atQuery,
                                       !.now = @ + latency,
                                       !.steady = @ /\ atQuery]
         IN  IF ~answered
             THEN \* describeAll threw
                  /\ Throw(trace)
                  /\ device' = queried
             ELSE IF found
             THEN /\ Found(polled)
                  /\ device' = queried
             ELSE /\ device' = [queried EXCEPT !.visible = afterWait,
                                               !.now = @ + PollInterval + late]
                  /\ trace' = polled
                  /\ UNCHANGED <<runTestCaseLocals, pc, frame, baselines, screenshots>>

\* lines 358-360: the loop is over
WaitForElementTimeout ==
    /\ CallFrame
    /\ pc = "wait_loop"
    /\ ~PollAgain(device.now, frame.startTime, TimeoutMs(frame.step))
    /\ NotFound(trace)
    /\ UNCHANGED device

\* lines 365-369: for (let i = 0; ...)
ScrollToElementStart ==
    /\ CallFrame
    /\ AtStep("scroll_to_element")
    /\ frame' = [NoFrame EXCEPT !.step = scenario[i + 1],
                                !.maxScrolls = MaxSwipesOf(scenario[i + 1])]
    /\ pc' = "swipe_loop"
    /\ trace' = Begin(trace)
    /\ UNCHANGED <<runTestCaseLocals, baselines, screenshots, device>>

\* lines 369-405: one turn of for (i < maxSwipes): describeAll, findBest,
\* and either return or swipe and wait(300); a swipe moves the element on or
\* off the screen
ScrollToElementTurn ==
    /\ CallFrame
    /\ pc = "swipe_loop"
    /\ frame.count < frame.maxScrolls
    /\ \E afterSwipe \in BOOLEAN, answered \in BOOLEAN, swiped \in BOOLEAN :
         LET found == device.visible
             queried == Event(trace, "query", [found |-> found])
         IN  IF ~answered
             THEN \* describeAll threw
                  Throw(trace) /\ UNCHANGED device
             ELSE IF found
             THEN Found(queried) /\ UNCHANGED device
             ELSE IF ~swiped
             THEN \* idbClient.swipe threw
                  Throw(queried) /\ UNCHANGED device
             ELSE /\ device' = [device EXCEPT !.visible = afterSwipe]
                  /\ frame' = [frame EXCEPT !.count = @ + 1]
                  /\ trace' = Event(queried, "swipe", Nothing)
                  /\ UNCHANGED <<runTestCaseLocals, pc, baselines, screenshots>>

\* lines 407-409: the loop is over
ScrollToElementCeiling ==
    /\ CallFrame
    /\ pc = "swipe_loop"
    /\ ~(frame.count < frame.maxScrolls)
    /\ NotFound(trace)
    /\ UNCHANGED device

InitElement ==
    /\ CompareIdle
    /\ StitchIdle
    /\ OverlapIdle
    /\ scenario \in ElementScenarios
    /\ updateBaselines = FALSE
    /\ i = 0
    /\ steps = <<>>
    /\ checkpoints = <<>>
    /\ success = TRUE
    /\ pc = "start"
    /\ frame = NoFrame
    /\ baselines = [p \in Paths |-> NoFile]
    /\ screenshots = [p \in Paths |-> NoFile]
    /\ device \in [visible : BOOLEAN, now : {0}, steady : {FALSE},
                  unlinkFails : {FALSE}]
    /\ entry = NoEntry
    /\ trace = [BeginRun EXCEPT !.logging = TRUE]

NextElement ==
    \/ EnsureDirectories
    \/ WaitForElementStart
    \/ WaitForElementPoll
    \/ WaitForElementTimeout
    \/ ScrollToElementStart
    \/ ScrollToElementTurn
    \/ ScrollToElementCeiling
    \/ SimpleStep
    \/ Return

SpecElement == InitElement /\ [][NextElement]_vars

(***************************************************************************)
(* SpecEntry: the entry points that call runTestCase: the run command of   *)
(* the CLI and the run_test_case and run_all_tests tools of the server.    *)
(* A call of runTestCase is what it hands back: a result with success true *)
(* or false, or a rejection.                                               *)
(***************************************************************************)
MaxTests == 2

\* point: the entry point; select: --all, a test case id, or neither;
\* generateReport: the tools' argument; pc: where the handler is;
\* totalTests, passed, failed, results: the TestRunResult being built
\* (results as the success of each result pushed); outcomes: what each call
\* of runTestCase did, in order (ghost); report: report.html was written;
\* exit: the exit code of the process, -1 while it runs; response: what the
\* tool returned
StartOf(point, select, generateReport) ==
    [point |-> point, select |-> select, generateReport |-> generateReport,
     pc |-> "start", totalTests |-> 0, passed |-> 0, failed |-> 0,
     results |-> <<>>, outcomes |-> <<>>, report |-> FALSE, exit |-> -1,
     response |-> "none"]

Outcomes == {"passed", "failed", "threw"}

\* process.exit(code), or the end of main
Exit(code) == entry' = [entry EXCEPT !.pc = "exited", !.exit = code]

\* the tool handler returned
Respond(e, response) == [e EXCEPT !.pc = "returned", !.response = response]

EntryFrame ==
    UNCHANGED <<compareVars, stitchVars, overlapVars, scenario, updateBaselines, i,
                steps, checkpoints, success, pc, frame, baselines, screenshots,
                device, trace>>

\* part_000:209-246 and part_001:914-928: count one result
Counted(e, outcome) ==
    [e EXCEPT !.outcomes = Append(@, outcome),
              !.results = IF outcome = "threw" THEN @ ELSE Append(@, outcome = "passed"),
              !.passed = IF outcome = "passed" THEN @ + 1 ELSE @,
              !.failed = IF outcome = "passed" THEN @ ELSE @ + 1]

\* part_000:268-270: if (results.failed > 0) process.exit(1)
ExitCodeMutZero(failed) ==
    0

ExitCode(failed) ==
    IF failed > 0 THEN 1 ELSE 0

\* part_000:152-190: directories, then the selection of the test cases; an
\* error outside the loop reaches the catch of main, which exits with 1
CliStart ==
    /\ EntryFrame
    /\ entry.point = "cli"
    /\ entry.pc = "start"
    /\ \E prepared \in BOOLEAN, listed \in 0..MaxTests, loaded \in BOOLEAN :
         IF ~prepared THEN Exit(1)
         ELSE IF entry.select = "all"
         THEN IF listed = 0 THEN Exit(1)
              ELSE entry' = [entry EXCEPT !.pc = "loop", !.totalTests = listed]
         ELSE IF entry.select = "id"
         THEN IF ~loaded THEN Exit(1)
              ELSE entry' = [entry EXCEPT !.pc = "loop", !.totalTests = 1]
         ELSE Exit(1)

\* part_000:205-246: one turn of for (const testCase of testCases); a
\* rejection of runTestCase is caught and counted as failed
CliRunTestCase ==
    /\ EntryFrame
    /\ entry.point = "cli"
    /\ entry.pc = "loop"
    /\ Len(entry.outcomes) < entry.totalTests
    /\ \E outcome \in Outcomes : entry' = Counted(entry, outcome)

\* part_000:248-271: the summary, the report when comparing, the exit code
CliFinish ==
    /\ EntryFrame
    /\ entry.point = "cli"
    /\ entry.pc = "loop"
    /\ Len(entry.outcomes) >= entry.totalTests
    /\ \E written \in BOOLEAN :
         IF updateBaselines
         THEN Exit(ExitCode(entry.failed))
         ELSE IF written
         THEN entry' = [entry EXCEPT !.pc = "exited", !.report = TRUE,
                                     !.exit = ExitCode(entry.failed)]
         ELSE \* generateReport rejected: the catch of main
              Exit(1)

\* part_001:788-870: the run_test_case tool
RunTestCaseTool ==
    /\ EntryFrame
    /\ entry.point = "run_test_case"
    /\ entry.pc = "start"
    /\ \E loaded \in BOOLEAN, outcome \in Outcomes, written \in BOOLEAN :
         LET ran == Counted(entry, outcome)
             response == IF outcome = "passed" THEN "result_ok" ELSE "result_failed"
         IN  entry' =
               IF entry.select = "none" THEN Respond(entry, "refused")
               ELSE IF ~loaded THEN Respond(entry, "error")
               ELSE IF outcome = "threw" THEN Respond([entry EXCEPT !.outcomes = <<outcome>>], "error")
               ELSE IF entry.generateReport /\ ~updateBaselines
               THEN (IF written THEN Respond([ran EXCEPT !.report = TRUE], response)
                     ELSE Respond(ran, "error"))
               ELSE Respond(ran, response)

\* part_001:881-912: the run_all_tests tool lists the test cases
RunAllTestsStart ==
    /\ EntryFrame
    /\ entry.point = "run_all_tests"
    /\ entry.pc = "start"
    /\ \E listed \in 0..MaxTests, answered \in BOOLEAN :
         entry' = IF ~answered THEN Respond(entry, "error")
                  ELSE IF listed = 0 THEN Respond(entry, "refused")
                  ELSE [entry EXCEPT !.pc = "loop", !.totalTests = listed]

\* part_001:914-928: one turn of the loop; a rejection of runTestCase ends
\* the handler in its catch
RunAllTestsRunTestCase ==
    /\ EntryFrame
    /\ entry.point = "run_all_tests"
    /\ entry.pc = "loop"
    /\ Len(entry.outcomes) < entry.totalTests
    /\ \E outcome \in Outcomes :
         entry' = IF outcome = "threw"
                  THEN Respond([entry EXCEPT !.outcomes = Append(@, outcome)], "error")
                  ELSE Counted(entry, outcome)

\* part_001:930-960: the report and the response
RunAllTestsFinish ==
    /\ EntryFrame
    /\ entry.point = "run_all_tests"
    /\ entry.pc = "loop"
    /\ Len(entry.outcomes) >= entry.totalTests
    /\ \E written \in BOOLEAN :
         LET response == IF entry.failed = 0 THEN "result_ok" ELSE "result_failed"
         IN  entry' =
               IF ~entry.generateReport THEN Respond(entry, response)
               ELSE IF written THEN Respond([entry EXCEPT !.report = TRUE], response)
               ELSE Respond(entry, "error")

InitEntry ==
    /\ CompareIdle
    /\ StitchIdle
    /\ OverlapIdle
    /\ scenario = <<>>
    /\ updateBaselines \in BOOLEAN
    /\ i = 0
    /\ steps = <<>>
    /\ checkpoints = <<>>
    /\ success = TRUE
    /\ pc = "idle"
    /\ frame = NoFrame
    /\ baselines = [p \in Paths |-> NoFile]
    /\ screenshots = [p \in Paths |-> NoFile]
    /\ device = NoDevice
    /\ entry \in { StartOf("cli", select, TRUE) : select \in {"all", "id", "none"} }
                 \cup { StartOf("run_test_case", select, g) :
                          select \in {"id", "none"}, g \in BOOLEAN }
                 \cup { StartOf("run_all_tests", "all", g) : g \in BOOLEAN }
    /\ trace = NoTrace

NextEntry ==
    \/ CliStart
    \/ CliRunTestCase
    \/ CliFinish
    \/ RunTestCaseTool
    \/ RunAllTestsStart
    \/ RunAllTestsRunTestCase
    \/ RunAllTestsFinish

SpecEntry == InitEntry /\ [][NextEntry]_vars

(***************************************************************************)
(* SpecSwipe: the scroll gesture of scroll_to_top, scroll_to_bottom,       *)
(* full_page_checkpoint and smart_checkpoint, for every scrollAmount and   *)
(* every centerY, supplied by the step or detected                         *)
(***************************************************************************)
ScrollSafeMargin == 100
ScrollDistanceDetect == 100
ScrollDistanceCapture == 200
DefaultScreenHeight == 800

ScrollingCases ==
    {"scroll_to_top", "scroll_to_bottom", "full_page_checkpoint", "smart_checkpoint"}
ScrollAmounts == {Given(100 * k) : k \in (-1)..MaxAmount} \cup {NotGiven}
CenterYs == {100 * k : k \in 0..MaxCenter}

\* lines 314, 365, 484: step.scrollAmount ?? SCROLL_DISTANCE_CAPTURE;
\* line 669: SCROLL_DISTANCE_DETECT
ScrollDistance(action, scrollAmount) ==
    IF action = "smart_checkpoint" THEN ScrollDistanceDetect
    ELSE IF scrollAmount = NotGiven THEN ScrollDistanceCapture
    ELSE scrollAmount[1]

\* lines 329-331, 380-382, 487-489, 672-674 (scrollDistance is even here)
SafeCenterY(centerY, scrollDistance) ==
    LET minSafeY == ScrollSafeMargin + scrollDistance \div 2
        maxSafeY == DefaultScreenHeight - ScrollSafeMargin - scrollDistance \div 2
    IN  Max(minSafeY, Min(maxSafeY, centerY))

\* the vertical endpoints of idbClient.swipe: <<start, end>> of a scroll
\* down; a scroll up has them the other way round
SwipeEnds(centerY, scrollDistance) ==
    LET safeCenterY == SafeCenterY(centerY, scrollDistance)
    IN  <<safeCenterY + scrollDistance \div 2, safeCenterY - scrollDistance \div 2>>

SwipeFrames ==
    [action : ScrollingCases, scrollAmount : ScrollAmounts, centerY : CenterYs,
     swipe : {<<>>}]

InitSwipe ==
    /\ CompareIdle
    /\ StitchIdle
    /\ OverlapIdle
    /\ scenario = <<>>
    /\ updateBaselines = FALSE
    /\ i = 0
    /\ steps = <<>>
    /\ checkpoints = <<>>
    /\ success = TRUE
    /\ pc = "gesture"
    /\ frame \in SwipeFrames
    /\ baselines = [p \in Paths |-> NoFile]
    /\ screenshots = [p \in Paths |-> NoFile]
    /\ device = NoDevice
    /\ entry = NoEntry
    /\ trace = NoTrace

\* idbClient.swipe(centerX, y1, centerX, y2, ...)
Swipe ==
    /\ RunFrame
    /\ pc = "gesture"
    /\ frame.swipe = <<>>
    /\ frame' = [frame EXCEPT
                    !.swipe = SwipeEnds(frame.centerY,
                                        ScrollDistance(frame.action, frame.scrollAmount))]
    /\ UNCHANGED <<runTestCaseLocals, pc, baselines, screenshots, trace>>

NextSwipe == Swipe

SpecSwipe == InitSwipe /\ [][NextSwipe]_vars

(***************************************************************************)
(* ElementFinder.findScrollRegion (part_002, lines 231-310)                *)
(***************************************************************************)
\* el.type and el.role as idb reports them, and their toLowerCase()
ElementTypes == {"Group", "StaticText"}
ElementRoles == {"AXGroup", "AXStaticText"}
ToLowerCase(name) ==
    CASE name = "Group" -> "group"
      [] name = "StaticText" -> "statictext"
      [] name = "AXGroup" -> "axgroup"
      [] name = "AXStaticText" -> "axstatictext"

\* line 240
ContainerTypes ==
    {"group", "axgroup", "scrollview", "tableview", "collectionview", "list"}

\* String.prototype.includes on the lower-case names above
Includes(name, t) ==
    \/ name = t
    \/ name = "axgroup" /\ t = "group"

\* frames <<x, y, width, height>>: a navigation bar, a large area, a tab
\* bar, a medium area of odd height, a small label; <<>> is a missing frame
ElementFrames ==
    { <<0, 0, 400, 44>>, <<0, 100, 400, 600>>, <<0, 750, 400, 50>>,
      <<50, 200, 300, 101>>, <<20, 60, 80, 30>>, <<>> }

Elements == [type : ElementTypes, role : ElementRoles, frame : ElementFrames]
UiTrees == UNION { [1..n -> Elements] : n \in 0..MaxElements }

\* Math.round(n / d) for d > 0: halves go up
Round(n, d) == (2 * n + d) \div (2 * d)

DefaultCenter == [centerX |-> 200, centerY |-> 400]

\* lines 242-246
IsContainer(el) ==
    \E t \in ContainerTypes :
        Includes(ToLowerCase(el.type), t) \/ Includes(ToLowerCase(el.role), t)

\* lines 260-264, 290-291: likely a navigation bar or a tab bar
IsBar(rect) ==
    \/ rect[2] < 50 /\ rect[4] < 100
    \/ rect[2] > 700 /\ rect[4] < 100

\* lines 257-267: the element can become bestContainer
Qualifies(el) ==
    /\ el.frame # <<>>
    /\ ~IsBar(el.frame)
    /\ ~(el.frame[3] < 100 \/ el.frame[4] < 100)

Area(el) == el.frame[3] * el.frame[4]

\* line 253: containers.length > 0 ? containers : elements
CandidateContainersMutContainersOnly(elements) ==
    SelectSeq(elements, IsContainer)

CandidateContainers(elements) ==
    LET containers == SelectSeq(elements, IsContainer)
    IN  IF Len(containers) > 0 THEN containers ELSE elements

\* lines 255-274: the first candidate of the greatest area, or Nothing
RECURSIVE BestContainer(_, _, _)
BestContainer(candidates, bestContainer, maxArea) ==
    IF candidates = <<>> THEN bestContainer
    ELSE LET el == Head(candidates)
         IN  IF Qualifies(el) /\ Area(el) > maxArea
             THEN BestContainer(Tail(candidates), el, Area(el))
             ELSE BestContainer(Tail(candidates), bestContainer, maxArea)

\* lines 284-304: the fallback over all elements; acc = [minY, maxY, avgX,
\* count], avgX kept doubled, minY = <<>> standing for Infinity
RECURSIVE Bounds(_, _)
Bounds(elements, acc) ==
    IF elements = <<>> THEN acc
    ELSE LET rect == Head(elements).frame
         IN  IF rect = <<>> \/ IsBar(rect) THEN Bounds(Tail(elements), acc)
             ELSE Bounds(Tail(elements),
                         [minY |-> IF acc.minY = <<>> THEN <<rect[2]>>
                                   ELSE <<Min(acc.minY[1], rect[2])>>,
                          maxY |-> Max(acc.maxY, rect[2] + rect[4]),
                          avgX |-> acc.avgX + 2 * rect[1] + rect[3],
                          count |-> acc.count + 1])

findScrollRegion(elements) ==
    LET bestContainer == BestContainer(CandidateContainers(elements), Nothing, 0)
        acc == Bounds(elements, [minY |-> <<>>, maxY |-> 0, avgX |-> 0, count |-> 0])
    IN  IF Len(elements) = 0 THEN DefaultCenter
        ELSE IF bestContainer # Nothing
        THEN [centerX |-> Round(2 * bestContainer.frame[1] + bestContainer.frame[3], 2),
              centerY |-> Round(2 * bestContainer.frame[2] + bestContainer.frame[4], 2)]
        ELSE IF acc.count > 0
        THEN [centerX |-> Round(acc.avgX, 2 * acc.count),
              centerY |-> Round(acc.minY[1] + acc.maxY, 2)]
        ELSE DefaultCenter

(***************************************************************************)
(* SpecRegion: findScrollRegion applied to the elements of a UI tree       *)
(***************************************************************************)
InitRegion ==
    /\ CompareIdle
    /\ StitchIdle
    /\ OverlapIdle
    /\ scenario = <<>>
    /\ updateBaselines = FALSE
    /\ i = 0
    /\ steps = <<>>
    /\ checkpoints = <<>>
    /\ success = TRUE
    /\ pc = "detect"
    /\ frame = [scrollRegion |-> Nothing]
    /\ baselines = [p \in Paths |-> NoFile]
    /\ screenshots = [p \in Paths |-> NoFile]
    /\ device \in [elements : UiTrees]
    /\ entry = NoEntry
    /\ trace = NoTrace

\* const scrollRegion = elementFinder.findScrollRegion(uiTree.elements)
FindScrollRegion ==
    /\ RunFrame
    /\ pc = "detect"
    /\ frame.scrollRegion = Nothing
    /\ frame' = [scrollRegion |-> findScrollRegion(device.elements)]
    /\ UNCHANGED <<runTestCaseLocals, pc, baselines, screenshots, trace>>

NextRegion == FindScrollRegion

SpecRegion == InitRegion /\ [][NextRegion]_vars

(***************************************************************************)
(* Properties of runTestCase (Spec)                                        *)
(***************************************************************************)
Last(seq) == seq[Len(seq)]
Returned == pc = "done"
ThrewAt == trace.threw[1]

\* C1: fail-fast.  When executeStep of step k throws, the TestCaseResult has
\* exactly the StepResults 0..k, the last one failed with a non-empty error,
\* success is false, no step after k was executed, and the StepResults and
\* CheckpointResults recorded before step k are the ones returned.
C1_FailFast ==
    (Returned /\ trace.threw # <<>>) =>
        /\ Len(steps) = ThrewAt + 1
        /\ \A k \in 1..Len(steps) : steps[k].stepIndex = k - 1
        /\ ~Last(steps).success
        /\ Last(steps).error # Nothing
        /\ Last(steps).error.message # ""
        /\ ~success
        /\ trace.executed = [k \in 1..(ThrewAt + 1) |-> k - 1]
        /\ SubSeq(steps, 1, ThrewAt) = trace.stepsBefore
        /\ checkpoints = trace.checkpointsBefore

\* the first step threw and the scenario had a step after it
C1_Witness ==
    /\ Returned
    /\ trace.threw = <<0>>
    /\ Len(scenario) = 2

\* C2: in compare mode the returned success flag is true exactly when every
\* recorded StepResult succeeded and every recorded CheckpointResult matched.
C2_SuccessIsConjunction ==
    (Returned /\ ~updateBaselines) =>
        (success <=> /\ \A k \in 1..Len(steps) : steps[k].success
                     /\ \A k \in 1..Len(checkpoints) : checkpoints[k].match)

\* a run that failed by a mismatch only, after a step that succeeded
C2_Witness ==
    /\ Returned
    /\ ~updateBaselines
    /\ ~success
    /\ Len(steps) = 2
    /\ steps[1].success
    /\ steps[2].error = Nothing

\* C3 as stated: once a failed StepResult is recorded (thrown error or
\* compare-mode mismatch), no later step of the scenario is executed.
C3_Original ==
    \A k \in 1..Len(steps) :
        ~steps[k].success =>
            \A n \in 1..Len(trace.executed) : trace.executed[n] <= steps[k].stepIndex

\* C3 as amended: a StepResult that records a thrown error is the last one
\* and no later step is executed; a run in which no step threw executes
\* every step of the scenario, whatever its checkpoints matched.
C3_HaltOnThrowOnly ==
    /\ \A k \in 1..Len(steps) :
          steps[k].error # Nothing =>
              /\ k = Len(steps)
              /\ \A n \in 1..Len(trace.executed) :
                     trace.executed[n] <= steps[k].stepIndex
    /\ (Returned /\ trace.threw = <<>>) =>
          /\ Len(steps) = Len(scenario)
          /\ trace.executed = [k \in 1..Len(scenario) |-> k - 1]

\* a mismatch failed step 0 and step 1 ran nevertheless
C3_Witness ==
    /\ Returned
    /\ Len(steps) = 2
    /\ ~steps[1].success
    /\ steps[1].error = Nothing
    /\ steps[1].checkpoint # Nothing
    /\ trace.executed = <<0, 1>>

\* C4: a step that returned a CheckpointResult has no error, carries the
\* result, and the result is in checkpoints; in compare mode the step is
\* failed when the result does not match; in update mode the step is never
\* failed, and the test case fails only when a step threw.
C4_MismatchFailsStep ==
    /\ \A k \in 1..Len(steps) :
          steps[k].checkpoint # Nothing =>
              /\ steps[k].error = Nothing
              /\ \E n \in 1..Len(checkpoints) : checkpoints[n] = steps[k].checkpoint
              /\ (~updateBaselines /\ ~steps[k].checkpoint.match) => ~steps[k].success
              /\ updateBaselines => steps[k].success
    /\ (updateBaselines /\ ~success) => trace.threw # <<>>

\* compare mode, a checkpoint-family step that did not match and was failed
C4_Witness ==
    /\ ~updateBaselines
    /\ \E k \in 1..Len(steps) :
          /\ steps[k].checkpoint # Nothing
          /\ ~steps[k].checkpoint.match
          /\ ~steps[k].success
          /\ steps[k].checkpoint.isFullPage

\* the image a checkpoint-family step captured: the shot, the first segment
\* (per-segment mode) or the stitched segments
CapturedImage(checkpoint) ==
    IF checkpoint.baselinePath[2] = "segment" THEN trace.kept[1]
    ELSE stitchVertically(trace.kept)

\* C5: in update mode, when a checkpoint-family step has returned, its
\* result has match = true and differencePercent = 0, and the file at its
\* baselinePath exists and holds the image the step captured.
C5_UpdateModeWritesBaseline ==
    (updateBaselines /\ pc \in {"loop", "done"} /\ steps # <<>>
       /\ Last(steps).checkpoint # Nothing) =>
        LET checkpoint == Last(steps).checkpoint
        IN  /\ checkpoint.match
            /\ RatEq(checkpoint.differencePercent, Num(0))
            /\ existsSync(baselines, checkpoint.baselinePath)
            /\ baselines[checkpoint.baselinePath] = CapturedImage(checkpoint)

\* update mode, a stitched full-page step kept two segments B, A and wrote
\* their composition (which no initial baseline holds) as the baseline
C5_Witness ==
    /\ updateBaselines
    /\ Returned
    /\ steps # <<>>
    /\ Last(steps).checkpoint # Nothing
    /\ Last(steps).checkpoint.isFullPage
    /\ trace.kept = <<ScreenB, ScreenA>>
    /\ baselines[MainPath("a")] = stitchVertically(<<ScreenB, ScreenA>>)

(***************************************************************************)
(* Properties of compare and of the 'checkpoint' case (SpecCompare)        *)
(***************************************************************************)
Compared == diffResult # Nothing
BothImages == IsImage(actualFile) /\ IsImage(baselineFile)
SameDimensions ==
    /\ actualFile.width = baselineFile.width
    /\ actualFile.height = baselineFile.height

\* C6: with no file at the baseline path, compare returns match = false and
\* differenceRatio = 1 without throwing, for every tolerance, and the
\* compare-mode checkpoint step returns match = false, differencePercent
\* = 100 without throwing.
C6_MissingBaseline ==
    baselineFile = NoFile =>
        /\ Compared =>
              /\ diffResult # Thrown
              /\ ~diffResult.match
              /\ RatEq(diffResult.differenceRatio, Num(1))
        /\ cpResult # Nothing =>
              /\ cpResult # Thrown
              /\ ~cpResult.match
              /\ RatEq(cpResult.differencePercent, Num(100))

\* both were called with tolerance 1 on a missing baseline
C6_Witness ==
    /\ baselineFile = NoFile
    /\ options.tolerance = Num(1)
    /\ Compared
    /\ cpResult # Nothing

\* C7: for decodable images of unequal width or height, compare returns
\* match = false and differenceRatio = 1 for every tolerance, and counts no
\* pixel.
C7_DimensionMismatch ==
    (Compared /\ BothImages /\ ~SameDimensions) =>
        /\ diffResult # Thrown
        /\ ~diffResult.match
        /\ RatEq(diffResult.differenceRatio, Num(1))
        /\ diffResult.differentPixels = 0
        /\ diffResult.diffImagePath = NoPath

\* unequal dimensions compared with tolerance 1
C7_Witness ==
    /\ Compared
    /\ BothImages
    /\ actualFile.width # baselineFile.width
    /\ options.tolerance = Num(1)

\* pixel (x, y) of the two files differs in R, G or B
RGBDiffers(x, y) ==
    SubSeq(PixelRGBA(actualFile, x, y), 1, 3) # SubSeq(PixelRGBA(baselineFile, x, y), 1, 3)

C9_SelfCompare ==
    (Compared /\ IsImage(actualFile) /\ baselineFile = actualFile) =>
        /\ diffResult # Thrown
        /\ diffResult.differentPixels = 0
        /\ RatEq(diffResult.differenceRatio, Num(0))
        /\ diffResult.match

\* a two-pixel image compared with itself under tolerance 0
C9_Witness ==
    /\ Compared
    /\ IsImage(actualFile)
    /\ baselineFile = actualFile
    /\ actualFile.width * actualFile.height = 2
    /\ options.tolerance = Num(0)

\* C10 as stated: on every return path differenceRatio =
\* differentPixels / totalPixels, 0 <= differentPixels <= totalPixels, and
\* the ratio lies in [0, 1].
C10_Original ==
    (Compared /\ diffResult # Thrown) =>
        /\ RatEq(diffResult.differenceRatio,
                 Div(diffResult.differentPixels, diffResult.totalPixels))
        /\ 0 <= diffResult.differentPixels
        /\ diffResult.differentPixels <= diffResult.totalPixels
        /\ RatLeq(Num(0), diffResult.differenceRatio)
        /\ RatLeq(diffResult.differenceRatio, Num(1))

(***************************************************************************)
(* Pixel counting and the diff image                                       *)
(***************************************************************************)
\* the pixels of the two files whose R, G or B values are not equal
RGBDifferingPixels ==
    { xy \in (0..(actualFile.width - 1)) \X (0..(actualFile.height - 1)) :
        RGBDiffers(xy[1], xy[2]) }

\* C11 as stated: for two decodable images of equal dimensions, compare
\* counts a pixel as different exactly when its R, G or B value differs
\* between actual and baseline, so differentPixels is the number of such
\* pixels (0 when the images differ in alpha only).
C11_Original ==
    (Compared /\ BothImages /\ SameDimensions) =>
        /\ diffResult # Thrown
        /\ diffResult.differentPixels = Cardinality(RGBDifferingPixels)

DiffWritten == diffFile # NoFile

\* C12 as stated: compare writes a diff file and returns a diffImagePath
\* exactly when generateDiff is set and at least one pixel is counted
\* different.
C12_Original ==
    (Compared /\ diffResult # Thrown) =>
        /\ DiffWritten <=> diffResult.diffImagePath # NoPath
        /\ DiffWritten <=> (options.generateDiff /\ diffResult.differentPixels > 0)

\* C12: compare writes a diff file, and returns its path as diffImagePath,
\* exactly when generateDiff is set, a diffOutputPath is given and at least
\* one pixel is counted different; the file has the dimensions of the
\* actual image; with zero pixels counted different, or when compare throws,
\* no file is written.
C12_DiffNeedsOutputPath ==
    Compared =>
        /\ diffResult = Thrown => ~DiffWritten
        /\ diffResult # Thrown =>
            /\ DiffWritten <=> diffResult.diffImagePath # NoPath
            /\ DiffWritten <=>
                  (/\ options.generateDiff
                   /\ options.diffOutputPath # NoPath
                   /\ diffResult.differentPixels > 0)
            /\ DiffWritten =>
                  /\ diffResult.diffImagePath = options.diffOutputPath
                  /\ IsImage(diffFile)
                  /\ diffFile.width = actualFile.width
                  /\ diffFile.height = actualFile.height

\* a diff file written for a comparison with one pixel counted different
C12_Witness ==
    /\ Compared
    /\ DiffWritten
    /\ diffResult.differentPixels = 1
    /\ diffResult.diffImagePath = DiffPath("a")

(***************************************************************************)
(* Baseline files                                                          *)
(***************************************************************************)
\* C13: in a run with updateBaselines = false the baselines directory
\* holds, at every point of the run, exactly the files and contents it held
\* when runTestCase was called, and updateBaseline is never called.
C13_BaselinesReadOnly ==
    ~updateBaselines =>
        /\ baselines = trace.baselinesBefore
        /\ trace.written = <<>>

\* a finished compare-mode run with a checkpoint whose baseline is missing
\* and a checkpoint-family step compared against a present baseline
C13_Witness ==
    /\ Returned
    /\ ~updateBaselines
    /\ Len(checkpoints) = 2
    /\ ~existsSync(baselines, checkpoints[1].baselinePath)
    /\ existsSync(baselines, checkpoints[2].baselinePath)

TimesWritten(path) ==
    Cardinality({ k \in 1..Len(trace.written) : trace.written[k] = path })

\* C14 as stated: within one update-mode run every baseline path is
\* written at most once, whatever the scenario.
C14_Original ==
    updateBaselines => \A path \in Paths : TimesWritten(path) <= 1

(***************************************************************************)
(* The full-page capture loop (SpecCapture)                                *)
(***************************************************************************)
ScreenshotEvents == SelectSeq(trace.events, LAMBDA e : e[1] = "screenshot")

\* the images the capture source returned to the step, in capture order
RawCaptures == [k \in 1..Len(ScreenshotEvents) |-> ScreenshotEvents[k][2]]

\* the scroll gestures the step performed
ScrollGestures == Len(SelectSeq(trace.events, LAMBDA e : e[1] = "swipe"))

StepMaxScrolls == scenario[1].maxScrolls

ConsecutiveDistinct(seq, n) == \A k \in 1..(n - 1) : seq[k] # seq[k + 1]

\* the capture source gave k consecutive-distinct images and then the k-th again
DuplicateAfter(k) ==
    /\ k >= 1
    /\ Len(RawCaptures) >= k + 1
    /\ ConsecutiveDistinct(RawCaptures, k)
    /\ RawCaptures[k + 1] = RawCaptures[k]

\* the CheckpointResult the step returned, when it returned one
Reported == steps # <<>> /\ steps[1].checkpoint # Nothing

\* C15: when the capture source yields k consecutive-distinct images and
\* then the k-th again, with k < maxScrolls, the step takes exactly k + 1
\* captures, performs exactly k scroll gestures, keeps exactly the first k
\* captures and reports k segment paths.
C15_StopsAtDuplicate ==
    \A k \in 1..(MaxScrolls + 1) :
        (DuplicateAfter(k) /\ k < StepMaxScrolls) =>
            /\ Len(RawCaptures) = k + 1
            /\ ScrollGestures = k
            /\ trace.kept = SubSeq(RawCaptures, 1, k)
            /\ pc = "capture_loop" =>
                   (frame.ended /\ Len(frame.segmentPaths) = k)
            /\ Reported => Len(steps[1].checkpoint.segmentPaths) = k

\* two distinct images, then the second again: the step has returned
C15_Witness ==
    /\ Returned
    /\ Reported
    /\ StepMaxScrolls = 3
    /\ RawCaptures = <<ScreenA, ScreenB, ScreenB>>
    /\ Len(steps[1].checkpoint.segmentPaths) = 2

RECURSIVE IsSubsequence(_, _)
IsSubsequence(sub, seq) ==
    IF sub = <<>> THEN TRUE
    ELSE IF seq = <<>> THEN FALSE
    ELSE IF Head(sub) = Head(seq) THEN IsSubsequence(Tail(sub), Tail(seq))
    ELSE IsSubsequence(sub, Tail(seq))

\* C17 as stated: the kept segments are a subsequence of the raw captures
\* and no two kept segments are byte-identical.
C17_Original ==
    /\ IsSubsequence(trace.kept, RawCaptures)
    /\ \A a, b \in 1..Len(trace.kept) : a # b => trace.kept[a] # trace.kept[b]

\* C17: the kept segments are the raw captures in capture order, without
\* the terminating duplicate, and no two consecutive kept segments are
\* byte-identical.
C17_NoConsecutiveDuplicates ==
    /\ IsSubsequence(trace.kept, RawCaptures)
    /\ trace.kept = SubSeq(RawCaptures, 1, Len(trace.kept))
    /\ Len(RawCaptures) <= Len(trace.kept) + 1
    /\ ConsecutiveDistinct(trace.kept, Len(trace.kept))

\* two segments kept and the duplicate of the second discarded
C17_Witness ==
    /\ pc = "capture_loop"
    /\ frame.ended
    /\ trace.kept = <<ScreenB, ScreenA>>
    /\ RawCaptures = <<ScreenB, ScreenA, ScreenA>>

(***************************************************************************)
(* stitchVertically (SpecStitch)                                           *)
(***************************************************************************)
Stitched == outputFile # Nothing

\* every file decodes and has the width of the first
SameWidthSegments ==
    \A k \in 1..Len(imagePaths) :
        IsImage(imagePaths[k]) /\ imagePaths[k].width = imagePaths[1].width

\* h1 + ... + h(k-1)
RECURSIVE HeightsBefore(_)
HeightsBefore(k) ==
    IF k <= 1 THEN 0 ELSE HeightsBefore(k - 1) + imagePaths[k - 1].height

\* C18: stitching N >= 2 decodable segments of one width W gives an image
\* of width W and height h1 + ... + hN whose row h1 + ... + h(i-1) + r is
\* row r of segment i composited over white (the segment's own R, G, B where
\* it is opaque), for every segment i in input order; stitching one file
\* gives a byte-identical copy of it.
C18_StitchLayout ==
    Stitched =>
        /\ (Len(imagePaths) = 1 /\ imagePaths[1] # NoFile) =>
               outputFile = imagePaths[1]
        /\ (Len(imagePaths) >= 2 /\ SameWidthSegments) =>
               /\ IsImage(outputFile)
               /\ outputFile.width = imagePaths[1].width
               /\ outputFile.height = HeightsBefore(Len(imagePaths) + 1)
               /\ Len(outputFile.data) = outputFile.width * outputFile.height * outputFile.channels
               /\ \A k \in 1..Len(imagePaths) :
                    \A r \in 0..(imagePaths[k].height - 1), x \in 0..(outputFile.width - 1) :
                        LET source == PixelRGBA(imagePaths[k], x, r)
                            painted == PixelRGBA(outputFile, x, HeightsBefore(k) + r)
                        IN  /\ painted = OverWhite(source)
                            /\ source[4] = 255 => painted = source

\* three segments of heights 1, 2, 1 stitched into a 1x4 image whose
\* last row is the third segment
C18_Witness ==
    /\ Stitched
    /\ Len(imagePaths) = 3
    /\ SameWidthSegments
    /\ imagePaths[1].height = 1
    /\ imagePaths[2].height = 2
    /\ imagePaths[3] = MkImage(1, 1, 4, << <<10, 20, 31, 255>> >>)
    /\ IsImage(outputFile)
    /\ outputFile.height = 4
    /\ PixelRGBA(outputFile, 0, 3) = <<10, 20, 31, 255>>
    /\ PixelRGBA(outputFile, 0, 0) = <<10, 20, 30, 255>>

(***************************************************************************)
(* findOverlap (SpecOverlap)                                               *)
(***************************************************************************)
OverlapDone == overlapResult # Nothing
BothLoaded == IsImage(prevImage) /\ IsImage(currentImage)

\* the row of prevImage the strip starts at
StripRow == prevImage.height - StripFromBottom - overlapArgs.stripHeight \div 2

\* currentImage is prevImage with its content moved up by d rows
ShiftedUpBy(d) ==
    /\ currentImage.height = prevImage.height
    /\ \A y \in 0..(prevImage.height - 1 - d) :
           PixelRGBA(currentImage, 0, y) = PixelRGBA(prevImage, 0, y + d)

\* the strip was found where a displacement of d rows puts it
FoundAtDisplacement(d) ==
    /\ OverlapDone
    /\ BothLoaded
    /\ d >= 0
    /\ ShiftedUpBy(d)
    /\ overlapResult.matchPosition = StripRow - d
    /\ RatEq(overlapResult.confidence, Num(1))

\* C19 as stated: for a currentImage that is prevImage shifted up by the
\* actual displacement and found in the search window, the offset is
\* positive exactly when the actual displacement is smaller than
\* scrollDistancePixels and negative exactly when it is larger.
C19_Original ==
    \A d \in 0..MaxRows :
        FoundAtDisplacement(d) =>
            /\ overlapResult.offset > 0 <=> d < overlapArgs.scrollDistancePixels
            /\ overlapResult.offset < 0 <=> d > overlapArgs.scrollDistancePixels

StripOutOfBounds ==
    \/ StripRow < 0
    \/ StripRow + overlapArgs.stripHeight > prevImage.height

ExpectedOutOfBounds ==
    \/ StripRow - overlapArgs.scrollDistancePixels < 0
    \/ StripRow - overlapArgs.scrollDistancePixels >
           currentImage.height - overlapArgs.stripHeight

\* C20: findOverlap never throws, and returns offset = 0, confidence = 0,
\* matchPosition = 0 when either file fails to load, when the strip is out
\* of the previous image's bounds or when the expected position is out of
\* the current image's bounds.
C20_OverlapNeverThrows ==
    OverlapDone =>
        /\ overlapResult # Thrown
        /\ (~BothLoaded \/ StripOutOfBounds \/ ExpectedOutOfBounds) =>
               overlapResult = ZeroOverlap

\* a file that does not decode, answered with the zero result
C20_Witness ==
    /\ OverlapDone
    /\ prevImage = Corrupt
    /\ IsImage(currentImage)
    /\ overlapResult = ZeroOverlap

(***************************************************************************)
(* The overlap detector in the capture loop (SpecCapture)                  *)
(***************************************************************************)
\* what the step keeps of a sequence of captures: everything but a final
\* capture equal to the one before it
KeptOf(captures) ==
    IF Len(captures) >= 2 /\ captures[Len(captures)] = captures[Len(captures) - 1]
    THEN SubSeq(captures, 1, Len(captures) - 1)
    ELSE captures

\* C21: the overlap detector is advisory. Whatever findOverlap returned
\* during the capture loop, the kept segments, the number of scroll gestures
\* and the CheckpointResult are the ones the screenshots alone determine:
\* two runs with the same screenshots and different findOverlap results
\* have the same segment list, gestures and result.
C21_OverlapAdvisory ==
    trace.executed # <<>> =>
        /\ trace.kept = KeptOf(RawCaptures)
        /\ IF trace.threw = <<>>
           THEN ScrollGestures = Max(0, Len(RawCaptures) - 1)
           ELSE \* the device call that threw came before or after the gesture
                ScrollGestures \in {Max(0, Len(RawCaptures) - 1), Len(RawCaptures)}
        /\ pc = "capture_loop" =>
               frame.segmentPaths = SegmentPaths(scenario[1].name, Len(KeptOf(RawCaptures)))
        /\ Reported =>
               steps[1].checkpoint =
                   FullPageCompare(scenario[1], KeptOf(RawCaptures), baselines,
                                   screenshots, updateBaselines).value

\* the detector reported a confident overlap for the second segment, and
\* the loop kept the segment all the same
C21_Witness ==
    /\ pc = "capture_loop"
    /\ frame.overlap \in OverlapResults \ {ZeroOverlap}
    /\ RawCaptures = <<ScreenA, ScreenB>>
    /\ trace.kept = <<ScreenA, ScreenB>>
    /\ frame.segmentPaths = SegmentPaths(scenario[1].name, 2)

(***************************************************************************)
(* smart_checkpoint (SpecSmart)                                            *)
(***************************************************************************)
Op(k) == IF k <= Len(trace.events) THEN trace.events[k][1] ELSE "none"
Shot(k) == trace.events[k][2]

\* the detection made its scroll down and took the screenshot after it
DownProbed == Len(trace.events) >= 5
DownChanged == Shot(5) # Shot(1)

\* the detection went on to scroll the opposite way
UpTried == Op(6) = "swipe_up"
UpProbed == UpTried /\ Len(trace.events) >= 9
UpChanged == Shot(9) # Shot(5)

\* the number of device calls of the detection
DetectionLength == IF UpTried THEN 9 ELSE 5

\* the position of the first checkpoint or segment capture, 0 if none yet
FirstCapture ==
    LET captures == { k \in 1..Len(trace.events) : trace.events[k][1] = "screenshot" }
    IN  IF captures = {} THEN 0
        ELSE CHOOSE k \in captures : \A j \in captures : k <= j

\* the device calls between the detection and the first capture
AfterDetection ==
    LET fc == FirstCapture
    IN  SubSeq(trace.events, DetectionLength + 1,
               IF fc > 0 THEN fc - 1 ELSE Len(trace.events))

\* a scroll-to-top ran to its end: it saw the screen stop changing, or made
\* its 20 gestures
Completed(top) ==
    LET probes == SelectSeq(top, LAMBDA e : e[1] = "probe")
        gestures == Len(SelectSeq(top, LAMBDA e : e[1] = "swipe_up"))
    IN  /\ Len(probes) = gestures + 1
        /\ \/ /\ Len(probes) >= 2
              /\ probes[Len(probes)][2] = probes[Len(probes) - 1][2]
           \/ gestures = SmartScrollToTopMax

ScrollToTopCompleted == Completed(AfterDetection)

\* C22: a smart_checkpoint that does not throw produces exactly one
\* CheckpointResult. It resolves to the full-page capture exactly when the
\* screenshot after the first (down) test scroll differs from the one
\* before it, or it does not and the screenshot after one opposite (up)
\* scroll differs from the one after the down scroll; otherwise to a plain
\* checkpoint. The opposite scroll is made at most once, and only when the
\* first changed nothing. When the full-page capture is chosen, a
\* scroll-to-top completes before the first segment is captured.
C22_SmartResolution ==
    LET n == Len(trace.events)
        fc == FirstCapture
        top == AfterDetection
        fullPage == DownChanged \/ UpChanged
    IN  /\ Len(checkpoints) <= 1
        /\ (Returned /\ trace.threw = <<>>) =>
               /\ Len(checkpoints) = 1
               /\ steps[1].checkpoint = checkpoints[1]
        /\ (trace.executed # <<>> /\ trace.threw = <<>>) => DownProbed
        /\ DownProbed =>
               /\ Op(1) = "probe" /\ Op(2) = "swipe" /\ Op(5) = "probe"
               /\ UpTried => (~DownChanged /\ Op(10) # "swipe_up")
               /\ (~DownChanged /\ n >= 6) => UpProbed
               /\ top # <<>> => fullPage
        /\ fc > 0 =>
               /\ DownProbed
               /\ fullPage => Completed(top)
               /\ ~fullPage => fc = n
               /\ Reported => steps[1].checkpoint.isFullPage = fullPage

\* down changed nothing, up did: the step scrolled to the top and returned a
\* full-page result
C22_Witness ==
    /\ Returned
    /\ Reported
    /\ DownProbed /\ ~DownChanged
    /\ UpProbed /\ UpChanged
    /\ ScrollToTopCompleted
    /\ steps[1].checkpoint.isFullPage
    /\ Len(steps[1].checkpoint.segmentPaths) = 2

(***************************************************************************)
(* Failures inside a checkpoint-family step (SpecSmart)                    *)
(***************************************************************************)
\* the overlap detector failed to decode its files during the step
OverlapLoadFailures ==
    Len(SelectSeq(trace.events, LAMBDA e : e[1] = "load_failed"))

\* the step left nothing of a checkpoint behind
NoCheckpointResult ==
    /\ checkpoints = trace.checkpointsBefore
    /\ Len(steps) = Len(trace.stepsBefore) + 1
    /\ Last(steps).success = FALSE
    /\ Last(steps).error # Nothing
    /\ Last(steps).checkpoint = Nothing

\* C23 as stated: a failing device call or a failing image decode anywhere
\* inside the step, the overlap detector's included, leaves no
\* CheckpointResult.
C23_Original ==
    (trace.threw # <<>> \/ (Returned /\ OverlapLoadFailures > 0)) => NoCheckpointResult

\* C23: when a device call (swipe, tap, screenshot) fails inside a
\* checkpoint-family step, or an image decode fails while stitching or
\* comparing, also after segments were captured, the step produces no
\* CheckpointResult: checkpoints is not extended and the StepResult has
\* success false, an error and no checkpoint. A decode failure inside the
\* overlap detector is not such a failure: the step goes on.
C23_FailureDiscardsResult ==
    /\ trace.threw # <<>> => NoCheckpointResult
    /\ (Returned /\ trace.threw = <<>>) =>
           /\ Reported
           /\ checkpoints = <<steps[1].checkpoint>>

\* the step captured two segments and threw when the comparison could not
\* decode the baseline
C23_Witness ==
    /\ Returned
    /\ trace.threw # <<>>
    /\ Len(trace.kept) = 2
    /\ Len(RawCaptures) = 2
    /\ baselines[MainPath("a")] = Corrupt
    /\ NoCheckpointResult

(***************************************************************************)
(* Per-segment comparison (SpecCapture)                                    *)
(***************************************************************************)
\* the comparison of the k-th kept segment with the baseline named by its
\* index; a missing baseline is a mismatch of ratio 1
SegmentResult(k) ==
    LET baseline == baselines[SegmentPath(scenario[1].name, k - 1)]
    IN  IF baseline = NoFile
        THEN [match |-> FALSE, differenceRatio |-> Num(1)]
        ELSE LET result == compare(trace.kept[k], baseline,
                                   FullPageOptions(scenario[1], NoPath))
             IN  [match |-> result.match, differenceRatio |-> result.differenceRatio]

\* the sum of the first k per-segment percentages
RECURSIVE SumOfPercentages(_)
SumOfPercentages(k) ==
    IF k = 0 THEN Num(0)
    ELSE RatAdd(SumOfPercentages(k - 1), Times(SegmentResult(k).differenceRatio, 100))

\* the step compared its segments one by one and returned
ComparedPerSegment ==
    /\ Returned
    /\ Reported
    /\ ~scenario[1].stitchImages
    /\ ~updateBaselines

\* C24: with stitching disabled, in compare mode, match is the conjunction
\* of the per-segment matches against the baselines named by segment index,
\* a missing baseline counting as a mismatch of ratio 1, and
\* differencePercent is the arithmetic mean of the per-segment percentages.
C24_PerSegmentResult ==
    ComparedPerSegment =>
        LET result == steps[1].checkpoint
            n == Len(trace.kept)
        IN  /\ n >= 1
            /\ result.segmentPaths = SegmentPaths(scenario[1].name, n)
            /\ result.match = (\A k \in 1..n : SegmentResult(k).match)
            /\ RatEq(Times(result.differencePercent, n), SumOfPercentages(n))

\* two segments, the first equal to its baseline and the second without
\* one: a mismatch of 50 percent
C24_Witness ==
    /\ ComparedPerSegment
    /\ Len(trace.kept) = 2
    /\ SegmentResult(1).match
    /\ baselines[SegmentPath(scenario[1].name, 1)] = NoFile
    /\ ~steps[1].checkpoint.match
    /\ RatEq(steps[1].checkpoint.differencePercent, Num(50))

(***************************************************************************)
(* Termination of runTestCase (FairSpec)                                   *)
(***************************************************************************)
\* runTestCase settled: it returned a TestCaseResult, or it rejected
Settled == pc \in {"done", "rejected"}

\* C25 as stated: when every external call returns or throws, runTestCase
\* eventually returns a TestCaseResult, whatever the scenario.
C25_Original == <>Returned

(***************************************************************************)
(* scroll_to_element and wait_for_element (SpecElement)                    *)
(***************************************************************************)
FirstIs(action) == scenario[1].action = action

\* the error of the element cases: the element was not found
RaisedNotFound == \E k \in 1..Len(trace.events) : Op(k) = "not_found"

Swipes == Len(SelectSeq(trace.events, LAMBDA e : e[1] = "swipe"))

\* the step is over: runTestCase has its StepResult
StepOver == Len(steps) >= 1

\* the loop of scroll_to_element: a query of the UI tree comes before every
\* swipe, a query that finds the element ends the step with success, there
\* are at most maxSwipes swipes, and not-found is raised at the ceiling only
ScrollLoopDiscipline ==
    LET n == Len(trace.events)
    IN  /\ \A k \in 1..n :
               Op(k) = "swipe" =>
                   (k > 1 /\ Op(k - 1) = "query" /\ ~Shot(k - 1).found)
        /\ \A k \in 1..n :
               (Op(k) = "query" /\ Shot(k).found) =>
                   (k = n /\ StepOver /\ steps[1].success)
        /\ Swipes <= MaxSwipesOf(scenario[1])
        /\ RaisedNotFound => Swipes = MaxSwipesOf(scenario[1])

\* C26 as stated: scroll_to_element queries before each swipe, returns as
\* soon as the predicate matches, makes at most maxSwipes swipes, raises
\* not-found only at the ceiling, and succeeds whenever the element is on
\* screen when scrolling stops.
C26_Original ==
    (FirstIs("scroll_to_element") /\ trace.executed # <<>>) =>
        /\ ScrollLoopDiscipline
        /\ (StepOver /\ RaisedNotFound) => ~device.visible

\* the latest poll of the wait_for_element loop, when there was one
HasPolled == trace.events # <<>> /\ Op(1) = "poll"
LatestPoll == Shot(1)

\* what wait_for_element does whatever its timeout: a poll that finds the
\* element ends the step with success and no poll starts once timeoutMs has
\* elapsed; not-found leaves a failed StepResult with an error and ends the
\* run with that step
WaitLoopDiscipline ==
    /\ HasPolled =>
           /\ LatestPoll.elapsed < TimeoutMs(scenario[1])
           /\ LatestPoll.found => (StepOver /\ steps[1].success /\ pc # "wait_loop")
    /\ (StepOver /\ steps[1].success) => (HasPolled /\ LatestPoll.found)
    /\ RaisedNotFound =>
           /\ Len(steps) = 1
           /\ ~steps[1].success
           /\ steps[1].error # Nothing
           /\ steps[1].checkpoint = Nothing
           /\ ~success
           /\ pc \in {"break", "done"}
           /\ trace.executed = <<0>>

\* C27 as stated: ... and the step never fails with not-found while an
\* element that was present from the start is still present, whatever
\* timeoutMs is.
C27_Original ==
    (FirstIs("wait_for_element") /\ trace.executed = <<0>>) =>
        /\ WaitLoopDiscipline
        /\ RaisedNotFound => ~device.steady

\* C27: wait_for_element returns as soon as a poll finds a match and never
\* starts a poll after timeoutMs has elapsed; otherwise it raises not-found,
\* which is recorded as a failed StepResult with a message and stops the
\* remaining steps. With timeoutMs > 0 it never fails while an element that
\* was present from the start is still present.
C27_WaitForElement ==
    (FirstIs("wait_for_element") /\ trace.executed = <<0>>) =>
        /\ WaitLoopDiscipline
        /\ (RaisedNotFound /\ TimeoutMs(scenario[1]) > 0) => ~device.steady

\* the element was absent at two polls, the timeout passed, and the tap
\* after the step was never executed
C27_Witness ==
    /\ FirstIs("wait_for_element")
    /\ Len(scenario) = 2
    /\ Returned
    /\ RaisedNotFound
    /\ HasPolled /\ LatestPoll.elapsed > 0
    /\ Len(steps) = 1

(***************************************************************************)
(* The entry points (SpecEntry)                                            *)
(***************************************************************************)
\* C28 as stated: with updateBaselines true no HTML report is generated, on
\* the CLI run command, the run_test_case tool and the run_all_tests tool.
C28_Original ==
    (entry.point # "none" /\ updateBaselines) => ~entry.report

\* the CLI process has ended
Exited == entry.point = "cli" /\ entry.pc = "exited"

HowMany(outcomes, wanted) ==
    Cardinality({ k \in 1..Len(outcomes) : outcomes[k] \in wanted })

\* every test case of the selection was run and returned success true
AllPassed ==
    /\ Len(entry.outcomes) = entry.totalTests
    /\ \A k \in 1..Len(entry.outcomes) : entry.outcomes[k] = "passed"

\* the tallies of the run command: every test case run so far is counted
\* once, as passed or as failed
TalliesAgree ==
    /\ Len(entry.outcomes) <= entry.totalTests
    /\ entry.passed = HowMany(entry.outcomes, {"passed"})
    /\ entry.failed = HowMany(entry.outcomes, {"failed", "threw"})
    /\ entry.passed + entry.failed = Len(entry.outcomes)
    /\ (Exited /\ entry.totalTests > 0) =>
           /\ Len(entry.outcomes) = entry.totalTests
           /\ entry.passed + entry.failed = entry.totalTests

\* C29 as stated: the run command exits with 0 exactly when every selected
\* test case returned success true, and with 1 when any failed or raised an
\* error; passed + failed = totalTests and each test case is counted once.
C29_Original ==
    entry.point = "cli" =>
        /\ TalliesAgree
        /\ Exited => (entry.exit = 0 <=> AllPassed)
        /\ Exited => (entry.exit = 1 <=> ~AllPassed)

\* C29: the run command exits with 0 exactly when at least one test case
\* was selected, every selected test case returned success true and, when
\* comparing, the report was written; it exits with 1 otherwise, so whenever
\* a test case failed or raised an error. passed + failed = totalTests and
\* each test case is counted exactly once, as passed or as failed.
C29_ExitCode ==
    entry.point = "cli" =>
        /\ TalliesAgree
        /\ Exited =>
               /\ entry.exit \in {0, 1}
               /\ entry.exit = 0 <=>
                      /\ entry.totalTests >= 1
                      /\ AllPassed
                      /\ updateBaselines \/ entry.report
               /\ HowMany(entry.outcomes, {"failed", "threw"}) > 0 => entry.exit = 1

\* two test cases, one passed and one raised an error: exit code 1
C29_Witness ==
    /\ Exited
    /\ entry.totalTests = 2
    /\ entry.outcomes = <<"passed", "threw">>
    /\ entry.passed = 1 /\ entry.failed = 1
    /\ entry.exit = 1

(***************************************************************************)
(* The start of a full_page_checkpoint step (SpecCapture)                  *)
(***************************************************************************)
\* C30 as stated: a full_page_checkpoint step captures its first segment
\* only after a scroll-to-top has run to its end (scrolling up until a
\* scroll changes nothing), whatever the position it started from.
C30_Original ==
    (scenario[1].action = "full_page_checkpoint" /\ FirstCapture > 0) =>
        Completed(SubSeq(trace.events, 1, FirstCapture - 1))

(***************************************************************************)
(* C31: in the full-page capture loop every capture after segment 0 comes  *)
(* directly after one scroll gesture, one edge tap and one settle wait, in *)
(* this order, and a capture lies between any two scroll gestures.         *)
(***************************************************************************)
EventIndices == 1..Len(trace.events)

LaterCaptures ==
    { k \in EventIndices : Op(k) = "screenshot"
                           /\ \E j \in 1..(k - 1) : Op(j) = "screenshot" }

GestureBefore(k) ==
    /\ k > 3
    /\ Op(k - 3) = "swipe"
    /\ Op(k - 2) = "tap"
    /\ Op(k - 1) = "wait"

CaptureBetweenSwipes ==
    \A j, k \in EventIndices :
        (j < k /\ Op(j) = "swipe" /\ Op(k) = "swipe")
            => \E m \in (j + 1)..(k - 1) : Op(m) = "screenshot"

C31_ScrollSettleCapture ==
    /\ \A k \in LaterCaptures : GestureBefore(k)
    /\ CaptureBetweenSwipes
    /\ \A k \in EventIndices :
           Op(k) = "swipe" => \E j \in 1..(k - 1) : Op(j) = "screenshot"

\* a finished capture of three segments: two gestures, each followed by a
\* capture
C31_Witness ==
    /\ Returned
    /\ trace.threw = <<>>
    /\ ScrollGestures = 2
    /\ Cardinality(LaterCaptures) = 2

(***************************************************************************)
(* C32: scroll_to_top makes at most maxScrolls scroll gestures (20 when    *)
(* the step gives none), stops right after the first gesture whose         *)
(* following screenshot equals the one taken before it, returns no         *)
(* CheckpointResult, and succeeds when the ceiling is reached.             *)
(***************************************************************************)
UpSwipes == { k \in EventIndices : Op(k) = "swipe_up" }
Probes == { k \in EventIndices : Op(k) = "probe" }
ProbeBefore(k) == CHOOSE j \in Probes : j < k /\ \A m \in Probes : m < k => m <= j
Unchanged(k) ==
    /\ \E j \in Probes : j < k
    /\ Shot(k) = Shot(ProbeBefore(k))

C32_ScrollToTop ==
    /\ Cardinality(UpSwipes) <= TopMaxScrolls(scenario[1])
    /\ \A k \in Probes : Unchanged(k) => k = Len(trace.events)
    /\ (Returned /\ trace.threw = <<>>) =>
           /\ \/ Cardinality(UpSwipes) = TopMaxScrolls(scenario[1])
              \/ Unchanged(Len(trace.events))
           /\ Cardinality(Probes) = Cardinality(UpSwipes) + 1
           /\ checkpoints = <<>>
           /\ Len(steps) = 1
           /\ steps[1].checkpoint = Nothing
           /\ steps[1].success
           /\ success

\* a step without maxScrolls that stopped at an unchanged screenshot after
\* two gestures, and one that made all twenty
C32_Witness ==
    /\ Returned
    /\ trace.threw = <<>>
    /\ scenario[1] = TopStep
    /\ Cardinality(UpSwipes) = 2
    /\ Unchanged(Len(trace.events))

C32_WitnessCeiling ==
    /\ Returned
    /\ trace.threw = <<>>
    /\ Cardinality(UpSwipes) = TopMaxScrolls(scenario[1])
    /\ Cardinality(UpSwipes) > 0
    /\ ~Unchanged(Len(trace.events))

(***************************************************************************)
(* The search of findOverlap (SpecMatch, SpecOverlap)                      *)
(***************************************************************************)
BoundsPass == BothLoaded /\ ~StripOutOfBounds /\ ~ExpectedOutOfBounds
ExpectedPosition == StripRow - overlapArgs.scrollDistancePixels
Window ==
    Max(0, ExpectedPosition - overlapArgs.searchRange) ..
    Min(currentImage.height - overlapArgs.stripHeight,
        ExpectedPosition + overlapArgs.searchRange)

\* the similarity of the strip laid at row y of currentImage
Sim(y) == StripSimilarity(prevImage, currentImage, StripRow, overlapArgs.stripHeight, y)
Threshold == Div(98, 100)
FirstOf(rows) == CHOOSE y \in rows : \A z \in rows : y <= z
Sims == { <<y, Sim(y)>> : y \in Window }
AtLeast(sims, r) == { p[1] : p \in { q \in sims : RatLeq(r, q[2]) } }
Above(sims, r) == { p[1] : p \in { q \in sims : RatGreater(q[2], r) } }
HighestOf(sims) == { p[1] : p \in { q \in sims : \A z \in sims : RatLeq(z[2], q[2]) } }
SimOf(sims, y) == (CHOOSE p \in sims : p[1] = y)[2]

\* C33 as stated: the first row of the window whose similarity is at least
\* 0.98 if there is one, otherwise a row of the window with the highest
\* similarity; the confidence is the similarity of the returned row.
C33_Original ==
    (OverlapDone /\ BoundsPass) =>
        LET sims == Sims
            good == AtLeast(sims, Threshold)
        IN  /\ IF good # {} THEN overlapResult.matchPosition = FirstOf(good)
               ELSE overlapResult.matchPosition \in HighestOf(sims)
            /\ overlapResult.matchPosition \in Window
            /\ RatEq(overlapResult.confidence, SimOf(sims, overlapResult.matchPosition))

\* C33: the first row of the window whose similarity is greater than 0.98
\* if there is one; otherwise the first row with the highest similarity,
\* when that similarity is above zero; otherwise row 0 with confidence 0.
C33_FirstAboveThreshold ==
    (OverlapDone /\ BoundsPass) =>
        LET sims == Sims
            good == Above(sims, Threshold)
            best == IF good # {} THEN FirstOf(good) ELSE FirstOf(HighestOf(sims))
        IN  IF Above(sims, Num(0)) # {}
            THEN /\ overlapResult.matchPosition = best
                 /\ RatEq(overlapResult.confidence, SimOf(sims, best))
            ELSE /\ overlapResult.matchPosition = 0
                 /\ RatEq(overlapResult.confidence, Num(0))

\* a row at exactly 0.98 was passed over for a later row that matches fully
C33_Witness ==
    /\ OverlapDone
    /\ BoundsPass
    /\ \E y \in Window :
           /\ RatEq(Sim(y), Threshold)
           /\ overlapResult.matchPosition > y
    /\ RatEq(overlapResult.confidence, Num(1))

\* C34 as stated: when the bounds checks pass, matchPosition is a row of
\* the searched window and offset = expected - matchPosition, so that
\* |offset| <= searchRange, for every pair of images.
C34_Original ==
    (OverlapDone /\ BoundsPass) =>
        /\ overlapResult.matchPosition \in Window
        /\ overlapResult.offset = ExpectedPosition - overlapResult.matchPosition
        /\ Abs(overlapResult.offset) <= overlapArgs.searchRange

(***************************************************************************)
(* The scroll gesture (SpecSwipe)                                          *)
(***************************************************************************)
\* C35 as stated: both vertical endpoints of every scroll gesture lie
\* within [SCROLL_SAFE_MARGIN, DEFAULT_SCREEN_HEIGHT - SCROLL_SAFE_MARGIN],
\* for every centerY and every scrollAmount.
C35_Original ==
    (pc = "gesture" /\ frame.swipe # <<>>) =>
        \A k \in 1..2 :
            /\ frame.swipe[k] >= ScrollSafeMargin
            /\ frame.swipe[k] <= DefaultScreenHeight - ScrollSafeMargin

(***************************************************************************)
(* Segment files (SpecCapture)                                             *)
(***************************************************************************)
\* the capture loop is over and the comparison has not begun
LoopOver ==
    /\ pc = "capture_loop"
    /\ frame.ended \/ ~CaptureLoopRuns(frame.count, frame.maxScrolls)

\* the loop ended at a capture equal to the one before it
EndedAtDuplicate == pc = "capture_loop" /\ frame.ended

\* the file the terminating duplicate was written to
DuplicatePath == SegmentPath(frame.step.name, Len(frame.segmentPaths))

\* the kept segments are the files <name>_segment_0 .. <name>_segment_<n-1>,
\* holding the kept captures in order
KeptSegmentsInOrder ==
    LoopOver =>
        LET n == Len(frame.segmentPaths)
        IN  /\ n = Len(trace.kept)
            /\ frame.segmentPaths = SegmentPaths(frame.step.name, n)
            /\ \A k \in 1..n : screenshots[frame.segmentPaths[k]] = trace.kept[k]

\* per-segment baselines carry the index of the kept segment: update mode
\* writes kept segment i to <name>_segment_<i>, compare mode compares it
\* with that file
BaselinesByIndex ==
    (Returned /\ Reported /\ ~scenario[1].stitchImages) =>
        LET n == Len(trace.kept)
        IN  IF updateBaselines
            THEN \A k \in 1..n :
                     baselines[SegmentPath(scenario[1].name, k - 1)] = trace.kept[k]
            ELSE steps[1].checkpoint.match = (\A k \in 1..n : SegmentResult(k).match)

\* C36 as stated: after the capture loop the i-th kept segment is the file
\* <name>_segment_<i>, without gaps; the file of the discarded duplicate no
\* longer exists; the baseline of kept segment i is <name>_segment_<i>.
C36_Original ==
    /\ KeptSegmentsInOrder
    /\ EndedAtDuplicate => screenshots[DuplicatePath] = NoFile
    /\ BaselinesByIndex

\* C36: as above, with the file of the discarded duplicate gone whenever
\* its removal did not fail, and still holding the duplicate, outside the
\* kept segments, when it did.
C36_SegmentFiles ==
    /\ KeptSegmentsInOrder
    /\ EndedAtDuplicate =>
           /\ ~(\E k \in 1..Len(frame.segmentPaths) : frame.segmentPaths[k] = DuplicatePath)
           /\ IF Op(Len(trace.events)) = "unlink_failed"
              THEN screenshots[DuplicatePath] = Last(trace.kept)
              ELSE screenshots[DuplicatePath] = NoFile
    /\ BaselinesByIndex

\* two kept segments, then a duplicate that was removed
C36_Witness ==
    /\ EndedAtDuplicate
    /\ Len(frame.segmentPaths) = 2
    /\ frame.segmentPaths = SegmentPaths(frame.step.name, 2)
    /\ Op(Len(trace.events)) = "screenshot"
    /\ screenshots[DuplicatePath] = NoFile

\* update mode wrote two segment baselines by index
C36_WitnessBaselines ==
    /\ Returned
    /\ Reported
    /\ ~scenario[1].stitchImages
    /\ updateBaselines
    /\ Len(trace.kept) = 2
    /\ baselines[SegmentPath(scenario[1].name, 1)] = trace.kept[2]

(***************************************************************************)
(* The two result lists of runTestCase (Spec)                              *)
(***************************************************************************)
\* the checkpoint fields of the StepResults that have one, in order
RECURSIVE CheckpointsOf(_)
CheckpointsOf(results) ==
    IF results = <<>> THEN <<>>
    ELSE IF Head(results).checkpoint = Nothing THEN CheckpointsOf(Tail(results))
    ELSE <<Head(results).checkpoint>> \o CheckpointsOf(Tail(results))

\* the steps whose executeStep call has ended, by returning or by throwing
StepsEnded == IF trace.threw # <<>> THEN i + 1 ELSE i

ListsAgree ==
    /\ Len(steps) = StepsEnded
    /\ \A k \in 1..Len(steps) :
           /\ steps[k].stepIndex = k - 1
           /\ steps[k].action = scenario[k].action
    /\ checkpoints = CheckpointsOf(steps)

\* both lists only grow at the end: no entry is changed or removed
AppendOnly ==
    /\ Len(steps') >= Len(steps)
    /\ SubSeq(steps', 1, Len(steps)) = steps
    /\ Len(checkpoints') >= Len(checkpoints)
    /\ SubSeq(checkpoints', 1, Len(checkpoints)) = checkpoints

\* C37: at every point of a run the StepResult list has one entry per ended
\* step, the k-th carrying stepIndex k; the checkpoints list is, in order,
\* the checkpoint fields of the StepResults that have one; an appended
\* CheckpointResult is never modified.
C37_ResultLists == []ListsAgree /\ [][AppendOnly]_vars

\* two steps ended, the first without a checkpoint and the second with one
C37_Witness ==
    /\ Len(steps) = 2
    /\ steps[1].checkpoint = Nothing
    /\ steps[2].checkpoint # Nothing
    /\ checkpoints = <<steps[2].checkpoint>>

(***************************************************************************)
(* findScrollRegion (SpecRegion)                                           *)
(***************************************************************************)
RegionFound == pc = "detect" /\ frame.scrollRegion # Nothing
ElementIndices == 1..Len(device.elements)
Element(k) == device.elements[k]
CenterOf(el) ==
    [centerX |-> Round(2 * el.frame[1] + el.frame[3], 2),
     centerY |-> Round(2 * el.frame[2] + el.frame[4], 2)]

\* the elements the fallback counts: with a frame, and not a thin strip
\* at the top or at the bottom
CountedElements == { k \in ElementIndices : Element(k).frame # <<>> /\ ~IsBar(Element(k).frame) }

\* twice the sum of the horizontal centres of the elements of indices ks
RECURSIVE SumTwiceX(_)
SumTwiceX(ks) ==
    IF ks = {} THEN 0
    ELSE LET k == CHOOSE m \in ks : TRUE
         IN  2 * Element(k).frame[1] + Element(k).frame[3] + SumTwiceX(ks \ {k})

\* the centre computed from the bounds of the counted elements: the mean
\* of their horizontal centres, and the middle of their vertical extent
\* (which starts no lower than y = 0)
BoundsCenter ==
    LET ys == { Element(k).frame[2] : k \in CountedElements }
        bottoms == { Element(k).frame[2] + Element(k).frame[4] : k \in CountedElements } \cup {0}
        minY == CHOOSE y \in ys : \A z \in ys : y <= z
        maxY == CHOOSE y \in bottoms : \A z \in bottoms : y >= z
    IN  [centerX |-> Round(SumTwiceX(CountedElements), 2 * Cardinality(CountedElements)),
         centerY |-> Round(minY + maxY, 2)]

\* the centres of the largest elements among those of indices ks
LargestCenters(ks) ==
    { CenterOf(Element(k)) : k \in { m \in ks : \A n \in ks : Area(Element(n)) <= Area(Element(m)) } }

Fallback == IF CountedElements # {} THEN BoundsCenter ELSE DefaultCenter

\* C38 as stated: never null; the centre of the largest-area container-like
\* element that is at least 100x100 and not a thin strip at the top or the
\* bottom; if no element qualifies, the centre computed from the bounds of
\* all elements that are not such strips; if there is none, (200, 400).
C38_Original ==
    RegionFound =>
        LET containers == { k \in ElementIndices : IsContainer(Element(k)) /\ Qualifies(Element(k)) }
        IN  IF containers # {}
            THEN frame.scrollRegion \in LargestCenters(containers)
            ELSE frame.scrollRegion = Fallback

\* C38: never null. The candidates are the container-like elements when
\* the tree has any, and all elements otherwise; the result is the centre
\* of the first candidate of the largest area among those at least 100x100
\* and not thin strips; without such a candidate, the centre computed from
\* all elements that are not thin strips; without those, (200, 400).
C38_ScrollRegion ==
    RegionFound =>
        LET anyContainer == \E k \in ElementIndices : IsContainer(Element(k))
            candidates == { k \in ElementIndices :
                              /\ anyContainer => IsContainer(Element(k))
                              /\ Qualifies(Element(k)) }
            largest == { m \in candidates :
                           \A n \in candidates : Area(Element(n)) <= Area(Element(m)) }
        IN  IF candidates # {}
            THEN frame.scrollRegion = CenterOf(Element(CHOOSE m \in largest : \A n \in largest : m <= n))
            ELSE frame.scrollRegion = Fallback

\* a tree without container-like elements whose large plain element is
\* chosen although the bounds of all elements have another centre
C38_Witness ==
    /\ RegionFound
    /\ \A k \in ElementIndices : ~IsContainer(Element(k))
    /\ \E k \in ElementIndices : Qualifies(Element(k)) /\ frame.scrollRegion = CenterOf(Element(k))
    /\ frame.scrollRegion # Fallback

\* the fallback over the bounds, and the default
C38_WitnessFallback ==
    /\ RegionFound
    /\ Cardinality(CountedElements) = 2
    /\ frame.scrollRegion = BoundsCenter
    /\ frame.scrollRegion # DefaultCenter
    /\ \A k \in ElementIndices : ~Qualifies(Element(k))

(***************************************************************************)
(* The diff image (SpecDiff)                                               *)
(***************************************************************************)
SameShape ==
    /\ diffFile.width = actualFile.width
    /\ diffFile.height = actualFile.height
    /\ diffFile.channels = actualFile.channels
    /\ Len(diffFile.data) = Len(actualFile.data)

Rgb(img, idx) == <<At(img, idx), At(img, idx + 1), At(img, idx + 2)>>
Magenta == <<255, 0, 255>>
Differs(idx) == Rgb(actualFile, idx) # Rgb(baselineFile, idx)
InputsUntouched == actualFile' = actualFile /\ baselineFile' = baselineFile

\* the floor of (0.3 R + 0.59 G + 0.11 B) * 0.4 taken exactly
ExactGrayAt(idx) ==
    ExactGray(At(actualFile, idx), At(actualFile, idx + 1), At(actualFile, idx + 2))

DiffImageAsStated ==
    DiffWritten =>
        /\ SameShape
        /\ \A idx \in PixelOffsets(actualFile) :
               IF Differs(idx) THEN Rgb(diffFile, idx) = Magenta
               ELSE /\ Rgb(diffFile, idx) = <<ExactGrayAt(idx), ExactGrayAt(idx), ExactGrayAt(idx)>>
                    /\ At(diffFile, idx) <= 102

\* C39 as stated: the diff image has the dimensions of the inputs; a
\* differing pixel is (255, 0, 255); a matching pixel has R = G = B =
\* floor((0.3 R + 0.59 G + 0.11 B) * 0.4) of the actual image, at most 102;
\* the actual and baseline buffers are never modified.
C39_Original == []DiffImageAsStated /\ [][InputsUntouched]_vars

DiffImageAsComputed ==
    DiffWritten =>
        /\ SameShape
        /\ \A idx \in PixelOffsets(actualFile) :
               IF Differs(idx) THEN Rgb(diffFile, idx) = Magenta
               ELSE LET gray == At(diffFile, idx)
                    IN  /\ Rgb(diffFile, idx) = <<gray, gray, gray>>
                        /\ gray = IF Rgb(actualFile, idx) \in FallsShort
                                  THEN ExactGrayAt(idx) - 1 ELSE ExactGrayAt(idx)
                        /\ gray <= 102

\* C39: as stated, with the grey of a matching pixel being the floor of the
\* expression as evaluated in double precision: the exact floor, or one
\* less for colours such as (0, 63, 3), whose exact value 15 is computed as
\* 14.99...
C39_DiffImage == []DiffImageAsComputed /\ [][InputsUntouched]_vars

\* a diff image with a differing pixel and a matching pixel of colour
\* (0, 63, 3), written as grey 14
C39_Witness ==
    /\ DiffWritten
    /\ \E idx \in PixelOffsets(actualFile) : Differs(idx) /\ Rgb(diffFile, idx) = Magenta
    /\ \E idx \in PixelOffsets(actualFile) :
           /\ ~Differs(idx)
           /\ Rgb(actualFile, idx) = <<0, 63, 3>>
           /\ Rgb(diffFile, idx) = <<14, 14, 14>>

====
